---- MODULE Spec2Model ----
(***************************************************************************)
(* Model of the market-data clients (FactSetClient, YFinanceClient) and of *)
(* the FeatureStore of regime-adaptive-stat-arb.                           *)
(*                                                                         *)
(* A client object is its configuration (provider, cache_dir,              *)
(* retry_attempts, retry_delay); the cache directory is a map from file    *)
(* names to file contents.  fetch_ticker is a sequential process: the      *)
(* cache check on entry, then one step per iteration of the retry loop.    *)
(* fetch_bulk and batch_compute call it once per ticker, in list order.    *)
(***************************************************************************)
EXTENDS Integers, Sequences, FiniteSets, TLC

\* ------------------------------------------------------------------ bounds
MaxRetryAttempts == 3
MaxRetryDelay == 1
MaxDate == 2
MaxTickers == 2
MaxShortRetry == 1
MaxStoreRows == 1
MaxCallerOps == 2
MaxRows == 5

Tickers == {"AAA", "BBB"}
Intervals == {"1d"}
Dates == 1..MaxDate

\* start_date / end_date default to None, which `if start_date:` treats as
\* "no bound"; dates proper are 1..MaxDate.
NoDate == 0
\* The ranges the callers of the clients ask for: none, from the last day
\* on, up to the first day, or both.
StartArgs == {NoDate, MaxDate}
EndArgs == {NoDate, 1}

\* ------------------------------------------------------------- data frames
\* A provider record: its date and whether open/high/low/close are all
\* present ("num") or some of them is null ("null").
RawRows == [Date : Dates, ohlc : {"num", "null"}]

\* What a provider answers with: at most one record per trading day, in
\* date order.
Ascending(s) == \A i \in 1..Len(s), j \in 1..Len(s) : i < j => s[i].Date < s[j].Date
RawTables == {s \in UNION {[1..n -> RawRows] : n \in 0..MaxDate} : Ascending(s)}

\* A DataFrame is the sequence of its rows; idx is the row's index label.
\* pd.DataFrame() is the empty sequence.
EmptyDataFrame == <<>>
empty(df) == Len(df) = 0

\* The column values of a frame, without the index labels.
Values(df) == [i \in 1..Len(df) |-> [Date |-> df[i].Date, ticker |-> df[i].ticker, ohlc |-> df[i].ohlc]]

\* reset_index(drop=True): index labels become 0..n-1.
reset_index(df) == [i \in 1..Len(df) |-> [df[i] EXCEPT !.idx = i - 1]]

\* FactSet: one DataFrame row per record of the response, RangeIndex, with
\* the ticker column.  YFinance: history() is indexed by date; _clean_data
\* resets the index and adds the ticker column.
_parse_factset_response(records, t) == [i \in 1..Len(records) |-> [idx |-> i - 1, Date |-> records[i].Date, ticker |-> t, ohlc |-> records[i].ohlc]]

dropna(df) == SelectSeq(df, LAMBDA r : r.ohlc = "num")

_clean_data(df) == dropna(df)

\* df.to_parquet(index=False) keeps the columns and drops the index;
\* pd.read_parquet gives the rows a fresh RangeIndex.
to_parquet(df) == Values(df)
read_parquet(file) == [i \in 1..Len(file) |-> [idx |-> i - 1, Date |-> file[i].Date, ticker |-> file[i].ticker, ohlc |-> file[i].ohlc]]

\* _filter_by_date with `elif end_date`: the upper bound is applied only
\* when no lower bound is given.
_filter_by_date_elif(df, start, end) ==
    IF empty(df) THEN df
    ELSE IF start # NoDate THEN SelectSeq(df, LAMBDA r : r.Date >= start)
    ELSE IF end # NoDate THEN SelectSeq(df, LAMBDA r : r.Date <= end)
    ELSE df

_filter_by_date(df, start, end) ==
    IF empty(df) THEN df
    ELSE LET a == IF start # NoDate THEN SelectSeq(df, LAMBDA r : r.Date >= start) ELSE df
         IN  IF end # NoDate THEN SelectSeq(a, LAMBDA r : r.Date <= end) ELSE a

\* ------------------------------------------------------------- cache files
\* f"{ticker}_{interval}_factset.parquet" and f"{ticker}_{interval}.parquet"
Providers == {"factset", "yfinance"}

\* CacheFile with FactSetClient's file named like YFinanceClient's: no
\* provider tag in the name.
CacheFile_untagged(p, t, iv) == t \o "_" \o iv \o ".parquet"

CacheFile(p, t, iv) == IF p = "factset" THEN t \o "_" \o iv \o "_factset.parquet" ELSE t \o "_" \o iv \o ".parquet"
CacheFiles == {CacheFile(p, t, iv) : p \in Providers, t \in Tickers, iv \in Intervals}

Absent == [state |-> "absent", rows |-> <<>>]
Corrupt == [state |-> "corrupt", rows |-> <<>>]
Parquet(rows) == [state |-> "parquet", rows |-> rows]

\* ------------------------------------------------------------------- state
VARIABLES
    provider,        \* which client class the client object is
    cache_dir,       \* TRUE when the client was built with a cache directory
    retry_attempts,  \* self.retry_attempts
    retry_delay,     \* self.retry_delay
    cache,           \* the cache directory: file name -> file content
    features,        \* the feature store directory: ticker -> file content
    call,            \* the caller's operation in progress and its locals
    ft,              \* the fetch_ticker invocation in progress and its locals
    environ,         \* os.environ: the value of FACTSET_API_KEY
    universe         \* the lists of data.universe, once the module is imported

vars == <<provider, cache_dir, retry_attempts, retry_delay, cache, features, call, ft, environ, universe>>
config == <<provider, cache_dir, retry_attempts, retry_delay>>

\* os.getenv of a variable that is not set gives None.
Unset == "<unset>"

\* data.universe is imported by the callers that use it; the
\* specifications of the clients and of the feature store leave it out.
NotImported == "<not imported>"

\* What a call gives back: a DataFrame, a list, None, or an exception.
Pending == [kind |-> "pending", df |-> <<>>, exc |-> ""]
ReturnDF(df) == [kind |-> "df", df |-> df, exc |-> ""]
ReturnList(l) == [kind |-> "list", df |-> l, exc |-> ""]
ReturnNone == [kind |-> "None", df |-> <<>>, exc |-> ""]
Raise(e) == [kind |-> "raise", df |-> <<>>, exc |-> e]

\* --------------------------------------------------------- provider answers
\* "ok": the request is answered with records (history() returns a frame);
\* "no_data": a FactSet body without a "data" key; the others are the ways a
\* request fails: a network failure or any other exception ("error"), an
\* HTTP error status other than 401 and 429 ("http_error"), 429
\* ("rate_limit") and 401 ("auth").
ErrorKinds == {"error", "http_error", "rate_limit", "auth"}
Responses == [kind : {"ok"}, body : RawTables] \cup [kind : ErrorKinds \cup {"no_data"}, body : {<<>>}]

\* Whether df.to_parquet succeeds, fails leaving the file as it was, or
\* fails leaving a truncated file behind.
WriteOutcomes == {"ok", "error", "partial"}

\* ------------------------------------------------------------ cache access
\* _load_from_cache that never finds the file: every fetch goes to the
\* network.
_load_from_cache_miss(t, iv) == [found |-> FALSE, df |-> <<>>]

_load_from_cache(t, iv) ==
    LET file == cache[CacheFile(provider, t, iv)]
    IN  IF ~cache_dir THEN [found |-> FALSE, df |-> <<>>]
        ELSE IF file.state = "parquet" THEN [found |-> TRUE, df |-> read_parquet(file.rows)]
        ELSE [found |-> FALSE, df |-> <<>>]

\* _save_to_cache writing under the other client's file name, which
\* _load_from_cache does not look for.
_save_to_cache_other_name(df, t, iv, w) ==
    IF ~cache_dir \/ empty(df) THEN cache
    ELSE CASE w = "ok" -> [cache EXCEPT ![CacheFile(IF provider = "factset" THEN "yfinance" ELSE "factset", t, iv)] = Parquet(to_parquet(df))]
           [] w = "partial" -> [cache EXCEPT ![CacheFile(provider, t, iv)] = Corrupt]
           [] OTHER -> cache

\* _save_to_cache without the df.empty test: an empty frame is written
\* too.
_save_to_cache_empty_too(df, t, iv, w) ==
    IF ~cache_dir THEN cache
    ELSE CASE w = "ok" -> [cache EXCEPT ![CacheFile(provider, t, iv)] = Parquet(to_parquet(df))]
           [] w = "partial" -> [cache EXCEPT ![CacheFile(provider, t, iv)] = Corrupt]
           [] OTHER -> cache

\* The cache directory after _save_to_cache(df, ticker, interval).
_save_to_cache(df, t, iv, w) ==
    IF ~cache_dir \/ empty(df) THEN cache
    ELSE CASE w = "ok" -> [cache EXCEPT ![CacheFile(provider, t, iv)] = Parquet(to_parquet(df))]
           [] w = "partial" -> [cache EXCEPT ![CacheFile(provider, t, iv)] = Corrupt]
           [] OTHER -> cache

Writes(df) == IF cache_dir /\ ~empty(df) THEN 1 ELSE 0

\* ------------------------------------------------------------ fetch_ticker
FtIdle == [pc |-> "idle", ticker |-> "", interval |-> "", start_date |-> NoDate, end_date |-> NoDate,
           use_cache |-> TRUE, attempt |-> 0, requests |-> 0, sleeps |-> <<>>, rate_sleeps |-> 0,
           reads |-> 0, writes |-> 0, write_errors |-> 0, last |-> "", ret |-> Pending]

\* Entry of fetch_ticker: the cache check, then either the return from the
\* cache, or the retry loop, or (an empty range) the end of the function.
\* start_date and end_date are recorded where the function reads them, in
\* the _filter_by_date of a cache hit; on the network path they only select
\* the request's parameters, and the answer is the provider's choice.
fetch_ticker_enter(t, iv, start, end, uc) ==
    LET args == [FtIdle EXCEPT !.ticker = t, !.interval = iv, !.use_cache = uc]
        look == uc /\ cache_dir
        cached_data == _load_from_cache(t, iv)
        checked == [args EXCEPT !.reads = IF look THEN 1 ELSE 0]
    IN  IF look /\ cached_data.found
        THEN [checked EXCEPT !.pc = "done", !.start_date = start, !.end_date = end,
                             !.ret = ReturnDF(_filter_by_date(cached_data.df, start, end))]
        ELSE IF retry_attempts <= 0
        THEN [checked EXCEPT !.pc = "done", !.ret = ReturnNone]
        ELSE [checked EXCEPT !.pc = "attempt"]

\* backoff without the exponent: the same delay after every attempt.
backoff_constant(attempt, mult) == retry_delay * mult

Pow2(n) == 2 ^ n

\* delay = self.retry_delay * (2 ** attempt), doubled for a rate limit
backoff(attempt, mult) == retry_delay * Pow2(attempt) * mult

\* retry_or_give_up without the `return pd.DataFrame()` of the last
\* attempt: the function falls off its end.
retry_or_give_up_no_return(f, mult) ==
    IF f.attempt < retry_attempts - 1
    THEN [f EXCEPT !.attempt = f.attempt + 1, !.sleeps = Append(f.sleeps, backoff(f.attempt, mult))]
    ELSE [f EXCEPT !.pc = "done", !.ret = ReturnNone]

\* retry_or_give_up comparing with retry_attempts instead of
\* retry_attempts - 1: one attempt too many.
retry_or_give_up_one_more(f, mult) ==
    IF f.attempt < retry_attempts
    THEN [f EXCEPT !.attempt = f.attempt + 1, !.sleeps = Append(f.sleeps, backoff(f.attempt, mult))]
    ELSE [f EXCEPT !.pc = "done", !.ret = ReturnDF(EmptyDataFrame)]

\* The except branches: sleep and go round again, or give up on the last
\* attempt with an empty frame.
retry_or_give_up(f, mult) ==
    IF f.attempt < retry_attempts - 1
    THEN [f EXCEPT !.attempt = f.attempt + 1, !.sleeps = Append(f.sleeps, backoff(f.attempt, mult))]
    ELSE [f EXCEPT !.pc = "done", !.ret = ReturnDF(EmptyDataFrame)]

\* ticker_obj.history(...) followed by the reset_index and the ticker column
\* of YFinanceClient._clean_data: the date index becomes a column.
history(records, t) == [i \in 1..Len(records) |-> [idx |-> i - 1, Date |-> records[i].Date, ticker |-> t, ohlc |-> records[i].ohlc]]

\* The frame the try block works on before dropna.
parsed(resp, t) == IF provider = "factset" THEN _parse_factset_response(resp.body, t) ELSE history(resp.body, t)

\* except_branch without the 401 case: an authentication failure is
\* retried like any other HTTP error.
except_branch_retry_401(g, kind) ==
    IF provider = "factset" /\ kind = "rate_limit" THEN retry_or_give_up(g, 2)
    ELSE retry_or_give_up(g, 1)

\* The except clauses of the retry loop.  FactSetClient tells the HTTP
\* statuses apart: 401 is raised again, 429 backs off twice as long.
\* YFinanceClient has the one `except Exception` clause.
except_branch(g, kind) ==
    IF provider = "factset" /\ kind = "auth" THEN [g EXCEPT !.pc = "done", !.ret = Raise("HTTPError401")]
    ELSE IF provider = "factset" /\ kind = "rate_limit" THEN retry_or_give_up(g, 2)
    ELSE retry_or_give_up(g, 1)

\* One iteration of `for attempt in range(self.retry_attempts)`: the
\* request, and the handling of its answer.  `last` is the answer to the
\* latest request; w is how the to_parquet of _save_to_cache went.
attempt_result(f, resp, w) ==
    LET g == [f EXCEPT !.requests = f.requests + 1, !.last = resp.kind]
        df == _clean_data(parsed(resp, f.ticker))
    IN  CASE resp.kind = "no_data" -> [g EXCEPT !.pc = "done", !.ret = ReturnDF(EmptyDataFrame)]
          [] resp.kind = "ok" ->
                IF empty(parsed(resp, f.ticker))
                THEN [g EXCEPT !.pc = "done", !.ret = ReturnDF(EmptyDataFrame)]
                ELSE [g EXCEPT !.pc = "done", !.writes = Writes(df),
                               !.write_errors = IF w = "ok" THEN 0 ELSE Writes(df),
                               !.rate_sleeps = g.rate_sleeps + 1, !.ret = ReturnDF(df)]
          [] OTHER -> except_branch(g, resp.kind)

attempt_cache(f, resp, w) ==
    IF resp.kind = "ok" /\ ~empty(parsed(resp, f.ticker))
    THEN _save_to_cache(_clean_data(parsed(resp, f.ticker)), f.ticker, f.interval, w)
    ELSE cache

fetch_ticker_attempt ==
    /\ ft.pc = "attempt"
    /\ \E resp \in Responses, w \in WriteOutcomes :
          /\ resp.kind = "no_data" => provider = "factset"
          /\ w # "ok" => resp.kind = "ok" /\ Writes(_clean_data(parsed(resp, ft.ticker))) = 1
          /\ ft' = attempt_result(ft, resp, w)
          /\ cache' = attempt_cache(ft, resp, w)
    /\ UNCHANGED <<config, environ, universe, features, call>>

\* ------------------------------------------------------------ the callers
TickerOrder == <<"AAA", "BBB">>
Rank(t) == CHOOSE i \in 1..Len(TickerOrder) : TickerOrder[i] = t
TickerLists == UNION {[1..n -> Tickers] : n \in 0..MaxTickers}

CallIdle == [op |-> "idle", tickers |-> <<>>, interval |-> "", start_date |-> NoDate, end_date |-> NoDate,
             use_cache |-> TRUE, windows |-> [given |-> FALSE, list |-> <<>>], idx |-> 0,
             all_data |-> <<>>, failed_tickers |-> <<>>, succeeded |-> <<>>, log |-> <<>>, ret |-> Pending]

\* The caller's operation has come back, with a value or an exception.
Returned ==
    \/ call.op = "fetch_ticker" /\ ft.pc = "done"
    \/ call.op \notin {"idle", "fetch_ticker"} /\ call.ret.kind # "pending"

\* The caller is between two operations.
Idle == call.op = "idle"

\* The caller takes the result; the locals of the finished call are gone.
caller_returns ==
    /\ Returned
    /\ call' = CallIdle
    /\ ft' = FtIdle
    /\ UNCHANGED <<config, environ, universe, cache, features>>

\* client.fetch_ticker(t, ...) for a ticker of ts.
fetch_ticker_called(ts) ==
    /\ Idle
    /\ \E t \in ts, iv \in Intervals, s \in StartArgs, e \in EndArgs, uc \in BOOLEAN :
          /\ call' = [CallIdle EXCEPT !.op = "fetch_ticker"]
          /\ ft' = fetch_ticker_enter(t, iv, s, e, uc)
    /\ UNCHANGED <<config, environ, universe, cache, features>>

call_fetch_ticker == fetch_ticker_called(Tickers)

\* Two clients, a FactSetClient and a YFinanceClient, built with the same
\* cache directory and the same settings: the caller turns from one to the
\* other, and fetches the one ticker both are asked for.
other_client ==
    /\ Idle
    /\ provider' = IF provider = "factset" THEN "yfinance" ELSE "factset"
    /\ UNCHANGED <<cache_dir, retry_attempts, retry_delay, cache, features, call, ft, environ, universe>>

SharedTicker == "AAA"
call_fetch_ticker_shared == fetch_ticker_called({SharedTicker})

\* pd.concat(all_data, axis=0)
RECURSIVE concat(_)
concat(dfs) == IF dfs = <<>> THEN <<>> ELSE Head(dfs) \o concat(Tail(dfs))

\* sort_values(['ticker', 'Date']): insertion of each row after the rows
\* that do not come after it.
RowLE(a, b) == Rank(a.ticker) < Rank(b.ticker) \/ (a.ticker = b.ticker /\ a.Date <= b.Date)
RECURSIVE insert(_, _)
insert(r, df) == IF df = <<>> THEN <<r>>
                 ELSE IF RowLE(Head(df), r) THEN <<Head(df)>> \o insert(r, Tail(df))
                 ELSE <<r>> \o df
RECURSIVE sort_values(_)
sort_values(df) == IF df = <<>> THEN <<>> ELSE insert(df[Len(df)], sort_values(SubSeq(df, 1, Len(df) - 1)))

\* fetch_bulk_finish without the concat: the frame of the last ticker
\* fetched stands for the whole result.
fetch_bulk_finish_last_only(all_data) ==
    IF all_data = <<>> THEN ReturnDF(EmptyDataFrame)
    ELSE ReturnDF(reset_index(sort_values(all_data[Len(all_data)])))

\* The end of fetch_bulk, after the loop.
fetch_bulk_finish(all_data) ==
    IF all_data = <<>> THEN ReturnDF(EmptyDataFrame)
    ELSE ReturnDF(reset_index(sort_values(concat(all_data))))

call_fetch_bulk ==
    /\ Idle
    /\ \E ts \in TickerLists, iv \in Intervals, s \in {NoDate}, e \in {NoDate}, uc \in BOOLEAN :
          LET c == [CallIdle EXCEPT !.op = "fetch_bulk", !.tickers = ts, !.interval = iv,
                                    !.start_date = s, !.end_date = e, !.use_cache = uc]
          IN  IF ts = <<>>
              THEN /\ call' = [c EXCEPT !.ret = fetch_bulk_finish(<<>>)]
                   /\ ft' = FtIdle
              ELSE /\ call' = [c EXCEPT !.idx = 1]
                   /\ ft' = fetch_ticker_enter(ts[1], iv, s, e, uc)
    /\ UNCHANGED <<config, environ, universe, cache, features>>

\* The loop body going on while the fetch_ticker it called is still under
\* way.
fetch_ticker_started == ft.pc # "idle"

\* df = self.fetch_ticker(...): the statement after the call runs when the
\* call has come back.
fetch_ticker_returned == ft.pc = "done"

\* The body of the fetch_bulk loop after fetch_ticker has come back, and the
\* call of fetch_ticker for the next ticker (or the end of the function).
fetch_bulk_step ==
    /\ call.op = "fetch_bulk" /\ call.ret.kind = "pending" /\ fetch_ticker_returned
    /\ LET r == ft.ret
           seen == [call EXCEPT !.log = Append(call.log, [ticker |-> ft.ticker, rows |-> Len(r.df)])]
           c == IF ~empty(r.df)
                THEN [seen EXCEPT !.all_data = Append(call.all_data, r.df)]
                ELSE [seen EXCEPT !.failed_tickers = Append(call.failed_tickers, ft.ticker)]
       IN  CASE r.kind = "raise" -> call' = [call EXCEPT !.ret = r] /\ ft' = ft
             [] r.kind = "None" -> call' = [call EXCEPT !.ret = Raise("AttributeError")] /\ ft' = ft
             [] OTHER ->
                  IF call.idx < Len(call.tickers)
                  THEN /\ call' = [c EXCEPT !.idx = call.idx + 1]
                       /\ ft' = fetch_ticker_enter(call.tickers[call.idx + 1], call.interval,
                                                   call.start_date, call.end_date, call.use_cache)
                  ELSE /\ call' = [c EXCEPT !.ret = fetch_bulk_finish(c.all_data)]
                       /\ ft' = ft
    /\ UNCHANGED <<config, environ, universe, cache, features>>

\* ---------------------------------------- FactSetClient.fetch_bulk_optimized
\* chunk_size = 50: the ids of one batch request.
chunk_size == 50

\* tickers[i:i + chunk_size], i counted from 0
chunk_of(tickers, i) == SubSeq(tickers, i + 1, IF i + chunk_size < Len(tickers) THEN i + chunk_size ELSE Len(tickers))

\* What the provider answers a batch request with: for each id, in the
\* order asked, at most MaxStoreRows records; the fsymId of a record is the
\* ticker and a region suffix.
ShortTables == {r \in RawTables : Len(r) <= MaxStoreRows}
BatchBodies(chunk) ==
    {concat([i \in 1..Len(chunk) |-> [j \in 1..Len(b[i]) |-> [Date |-> b[i][j].Date, ohlc |-> b[i][j].ohlc,
                                                                fsymId |-> <<chunk[i], "US">>]]])
       : b \in [1..Len(chunk) -> ShortTables]}
BatchResponses(chunk) ==
    [kind : {"ok"}, body : BatchBodies(chunk)] \cup [kind : ErrorKinds \cup {"no_data"}, body : {<<>>}]

\* record.get("fsymId", "").split("-")[0]
_parse_factset_batch_response(records) ==
    [i \in 1..Len(records) |-> [idx |-> i - 1, Date |-> records[i].Date, ticker |-> records[i].fsymId[1],
                                 ohlc |-> records[i].ohlc]]

\* The locals of fetch_bulk_optimized and, once it has fallen back, of the
\* fetch_bulk it returns the value of: batch is the answers to the batch
\* requests sent so far.
WithBatch(c, b) == [f \in DOMAIN c \cup {"batch"} |-> IF f = "batch" THEN b ELSE c[f]]

\* except Exception: return self.fetch_bulk(tickers, start_date, end_date,
\* period=period), which starts with the fetch_ticker of tickers[0].
fall_back_to_fetch_bulk(c, b) ==
    /\ call' = WithBatch([CallIdle EXCEPT !.op = "fetch_bulk", !.tickers = c.tickers, !.interval = "1d",
                                          !.use_cache = TRUE, !.idx = 1], b)
    /\ ft' = fetch_ticker_enter(c.tickers[1], "1d", NoDate, NoDate, TRUE)

\* The one except clause of fetch_bulk_optimized.
except_batch(c, b, kind) == fall_back_to_fetch_bulk(c, b)

call_fetch_bulk_optimized ==
    /\ Idle
    /\ \E ts \in TickerLists :
          call' = WithBatch([CallIdle EXCEPT !.op = "fetch_bulk_optimized", !.tickers = ts, !.idx = 0], <<>>)
    /\ ft' = FtIdle
    /\ UNCHANGED <<config, environ, universe, cache, features>>

\* One iteration of `for i in range(0, len(tickers), chunk_size)`: the batch
\* request and the handling of its answer; after the last chunk, the end of
\* the function.  idx is i.
fetch_bulk_optimized_step ==
    /\ call.op = "fetch_bulk_optimized" /\ call.ret.kind = "pending"
    /\ IF call.idx >= Len(call.tickers)
       THEN /\ call' = [call EXCEPT !.ret = fetch_bulk_finish(call.all_data)]
            /\ ft' = ft
       ELSE \E resp \in BatchResponses(chunk_of(call.tickers, call.idx)) :
               LET b == Append(call.batch, resp.kind)
                   df_chunk == _parse_factset_batch_response(resp.body)
               IN  CASE resp.kind = "ok" ->
                          /\ call' = [call EXCEPT !.batch = b, !.idx = call.idx + chunk_size,
                                                  !.all_data = IF empty(df_chunk) THEN call.all_data
                                                               ELSE Append(call.all_data, df_chunk)]
                          /\ ft' = ft
                     [] resp.kind = "no_data" ->
                          /\ call' = [call EXCEPT !.batch = b, !.idx = call.idx + chunk_size]
                          /\ ft' = ft
                     [] OTHER -> except_batch(call, b, resp.kind)
    /\ UNCHANGED <<config, environ, universe, cache, features>>

\* ------------------------------------------------------------ FeatureStore
DefaultWindows == <<5, 20, 60>>
\* The windows arguments the callers pass: None, an empty list, a list with
\* a zero window, a list with a positive window.
WindowsArgs == {[given |-> FALSE, list |-> <<>>], [given |-> TRUE, list |-> <<>>],
                [given |-> TRUE, list |-> <<0>>], [given |-> TRUE, list |-> <<2>>]}

\* df.sort_values('Date'): insertion of each row after the rows of an
\* earlier or the same date.
RECURSIVE insert_by_date(_, _)
insert_by_date(r, df) == IF df = <<>> THEN <<r>>
                         ELSE IF Head(df).Date <= r.Date THEN <<Head(df)>> \o insert_by_date(r, Tail(df))
                         ELSE <<r>> \o df

\* sort_values left out: the rows stay in the order given.
not_sorted(df) == df

RECURSIVE sort_by_date(_)
sort_by_date(df) == IF df = <<>> THEN <<>> ELSE insert_by_date(df[Len(df)], sort_by_date(SubSeq(df, 1, Len(df) - 1)))

\* rolling that also refuses a window of one row.
rolling_raises_single(w) == w <= 1

\* rolling(window=w, min_periods=max(1, w//2)) refuses a window below
\* min_periods (w = 0) and a negative window.
rolling_raises(w) == w <= 0

\* compute_standard_features(df, windows): the empty frame comes back as it
\* is; otherwise the rows in date order with a fresh index and the feature
\* columns of each window, or the ValueError of a window rolling refuses.
compute_standard_features(df, windows) ==
    IF empty(df) THEN [raised |-> FALSE, rows |-> df, windows |-> <<>>]
    ELSE IF \E i \in 1..Len(windows) : rolling_raises(windows[i])
    THEN [raised |-> TRUE, rows |-> <<>>, windows |-> <<>>]
    ELSE [raised |-> FALSE, rows |-> reset_index(sort_by_date(df)), windows |-> windows]

\* windows = windows or [5, 20, 60]
windows_or_default(w) == IF w.given /\ w.list # <<>> THEN w.list ELSE DefaultWindows

\* to_parquet called on raw_df instead of df_feats: the file has the rows
\* without the feature columns.
FeatureFile_of_raw(feats) == [state |-> "parquet", rows |-> Values(feats.rows), windows |-> <<>>]

FeatureFile(feats) == [state |-> "parquet", rows |-> Values(feats.rows), windows |-> feats.windows]
NoFeatureFile == [state |-> "absent", rows |-> <<>>, windows |-> <<>>]
CorruptFeatureFile == [state |-> "corrupt", rows |-> <<>>, windows |-> <<>>]

\* compute_and_store without the try block around to_parquet: a failed
\* write raises.
compute_and_store_write_raises(t, raw_df, windows, w) ==
    LET df_feats == compute_standard_features(raw_df, windows_or_default(windows))
    IN  IF df_feats.raised \/ w # "ok" THEN [raised |-> TRUE, df_feats |-> df_feats, features |-> features]
        ELSE [raised |-> FALSE, df_feats |-> df_feats, features |-> [features EXCEPT ![t] = FeatureFile(df_feats)]]

\* compute_and_store(ticker, raw_df, windows): what it returns (or that it
\* raised) and the feature directory it leaves; w is how to_parquet went.
compute_and_store(t, raw_df, windows, w) ==
    LET df_feats == compute_standard_features(raw_df, windows_or_default(windows))
    IN  IF df_feats.raised THEN [raised |-> TRUE, df_feats |-> df_feats, features |-> features]
        ELSE [raised |-> FALSE, df_feats |-> df_feats,
              features |-> CASE w = "ok" -> [features EXCEPT ![t] = FeatureFile(df_feats)]
                             [] w = "partial" -> [features EXCEPT ![t] = CorruptFeatureFile]
                             [] OTHER -> features]

\* What client.fetch_ticker(t, period=period, interval=interval) can give
\* back to batch_compute: a cleaned frame (an empty one included), None (a
\* retry budget of zero), or the HTTPError of a 401.  The frames are taken
\* up to their index labels, which compute_standard_features discards.
FramesOfTicker ==
    [t \in Tickers |-> {reset_index(_clean_data(history(b, t))) : b \in {r \in RawTables : Len(r) <= MaxStoreRows}}]
NetworkFrames(t) == FramesOfTicker[t]
ReturnsOfTicker == [t \in Tickers |-> {ReturnDF(f) : f \in NetworkFrames(t)} \cup {ReturnNone, Raise("HTTPError401")}]
ClientReturns(t) == ReturnsOfTicker[t]

\* batch_succeeded with the append moved out of the try block: a ticker
\* whose computation raised is reported as succeeded.
batch_succeeded_outside_try(succeeded, t, raised) == Append(succeeded, t)

\* The loop without `if raw.empty: continue`: an empty fetch is computed
\* and stored like any other.
skip_compute_never(raw) == FALSE

\* if raw.empty: continue
skip_compute(raw) == empty(raw.df)

\* try: compute_and_store(...); succeeded.append(t) / except: log
batch_succeeded(succeeded, t, raised) == IF raised THEN succeeded ELSE Append(succeeded, t)

call_batch_compute ==
    /\ Idle
    /\ \E ts \in TickerLists, iv \in Intervals, wins \in WindowsArgs :
          LET c == [CallIdle EXCEPT !.op = "batch_compute", !.tickers = ts, !.interval = iv, !.windows = wins]
          IN  call' = IF ts = <<>> THEN [c EXCEPT !.ret = ReturnList(<<>>)] ELSE [c EXCEPT !.idx = 1]
    /\ ft' = FtIdle
    /\ UNCHANGED <<config, environ, universe, cache, features>>

\* One iteration of the batch_compute loop, on tickers[idx]: the call of
\* client.fetch_ticker, the emptiness test, compute_and_store in its try
\* block; after the last ticker, the return of the list.
batch_compute_step ==
    /\ call.op = "batch_compute" /\ call.ret.kind = "pending"
    /\ LET t == call.tickers[call.idx]
       IN  \E raw \in ClientReturns(t), w \in WriteOutcomes :
              LET done == compute_and_store(t, raw.df, call.windows, w)
                  computes == raw.kind = "df" /\ ~skip_compute(raw)
                  stored == computes /\ ~done.raised
                  entry == [ticker |-> t,
                            fetched |-> IF raw.kind = "df" /\ empty(raw.df) THEN "empty" ELSE raw.kind,
                            computed |-> IF ~computes THEN "skipped" ELSE IF done.raised THEN "raise" ELSE "ok"]
                  c == [call EXCEPT !.log = Append(call.log, entry),
                                    !.succeeded = IF computes THEN batch_succeeded(call.succeeded, t, done.raised)
                                                  ELSE call.succeeded]
              IN  /\ w # "ok" => stored
                  /\ features' = IF stored THEN done.features ELSE features
                  /\ call' = CASE raw.kind = "raise" -> [c EXCEPT !.ret = raw]
                               [] raw.kind = "None" -> [c EXCEPT !.ret = Raise("AttributeError")]
                               [] call.idx < Len(call.tickers) -> [c EXCEPT !.idx = call.idx + 1]
                               [] OTHER -> [c EXCEPT !.ret = ReturnList(c.succeeded)]
    /\ UNCHANGED <<config, environ, universe, cache, ft>>

\* A feature table: the rows and the windows whose columns it has.
\* pd.DataFrame() has neither.
FeatureTable(rows, windows) == [rows |-> rows, windows |-> windows]
EmptyFeatureTable == FeatureTable(EmptyDataFrame, <<>>)

\* How pd.read_parquet of an existing file goes: it reads the file, or it
\* raises (no permission, an I/O error).
ReadOutcomes == {"ok", "error"}

\* load without its try block: a file that cannot be read raises.
load_without_try(t, r) ==
    LET file == features[t]
    IN  IF file.state = "absent" THEN ReturnDF(EmptyFeatureTable)
        ELSE IF file.state = "parquet" /\ r = "ok"
        THEN ReturnDF(FeatureTable(read_parquet(file.rows), file.windows))
        ELSE Raise("OSError")

\* load(ticker): the stored table; pd.DataFrame() if there is no file or
\* the file cannot be read.
load(t, r) ==
    LET file == features[t]
    IN  IF file.state = "absent" THEN ReturnDF(EmptyFeatureTable)
        ELSE IF file.state = "parquet" /\ r = "ok"
        THEN ReturnDF(FeatureTable(read_parquet(file.rows), file.windows))
        ELSE ReturnDF(EmptyFeatureTable)

call_load ==
    /\ Idle
    /\ \E t \in Tickers, r \in ReadOutcomes :
          /\ r # "ok" => features[t].state = "parquet"
          /\ call' = [op |-> "load", ticker |-> t, read |-> r, ret |-> load(t, r)]
    /\ UNCHANGED <<config, environ, universe, cache, features, ft>>

\* store.compute_and_store(t, raw_df, windows) called directly, with a
\* cleaned frame of the ticker.  write is how to_parquet went, if the call
\* got that far.
call_compute_and_store ==
    /\ Idle
    /\ \E t \in Tickers, wins \in WindowsArgs, w \in WriteOutcomes :
          \E raw_df \in NetworkFrames(t) :
             LET done == compute_and_store(t, raw_df, wins, w)
                 reached == ~compute_standard_features(raw_df, windows_or_default(wins)).raised
             IN  /\ ~reached => w = "ok"
                 /\ call' = [op |-> "compute_and_store", ticker |-> t, raw_df |-> raw_df, windows |-> wins,
                             write |-> IF reached THEN w ELSE "not reached",
                             ret |-> IF done.raised THEN Raise(IF reached THEN "OSError" ELSE "ValueError")
                                     ELSE ReturnDF(FeatureTable(done.df_feats.rows, done.df_feats.windows))]
                 /\ features' = done.features
    /\ UNCHANGED <<config, environ, universe, cache, ft>>

\* ------------------------------------------------------ features.featurize
\* A cell of a numeric column is a number, NaN, +inf or -inf.
Num == "num"
NaN == "nan"
PosInf == "inf"
NegInf == "-inf"
cell(defined) == IF defined THEN Num ELSE NaN

\* A cell of the price column: its kind and, for a number, its value.
finite(v) == [kind |-> Num, v |-> v]
Inf == [kind |-> PosInf, v |-> 0]
\* The prices of a cleaned table, and the cells a price column can also
\* hold: zero and infinity.
PriceValues == {finite(1), finite(2)}
AnyPriceValues == {finite(0), finite(1), finite(2), Inf}

\* A table is its set of column names and its rows; a row of a price table
\* has its index label, its Date and its price (the cell of the price
\* column).
OHLCV == {"Date", "open", "high", "low", "close", "volume", "ticker"}
ColumnSets == {OHLCV, OHLCV \cup {"adj_close"}, OHLCV \cup {"adjusted_close"}, OHLCV \cup {"ret"},
               {"Date", "close"}, {"Date", "open", "volume"}}
PriceSeries == UNION {[1..n -> PriceValues] : n \in 0..MaxRows}
\* Tables with columns missing or with zero and infinite prices are short.
ShortRows == MaxRows - 2
ShortSeries == UNION {[1..n -> PriceValues] : n \in 0..2}
AnySeries == UNION {[1..n -> AnyPriceValues] : n \in 1..ShortRows}

\* The rows come in date order, in reverse date order, or with the earliest
\* row last.
RowOrders == {"ascending", "descending", "rotated"}
date_at(i, n, order) ==
    CASE order = "ascending" -> i
      [] order = "descending" -> n + 1 - i
      [] OTHER -> (i % n) + 1
price_rows(prices, order) ==
    [i \in 1..Len(prices) |-> [idx |-> i - 1, Date |-> date_at(i, Len(prices), order), price |-> prices[i]]]
PriceTables ==
    {[columns |-> OHLCV \cup {"adj_close"}, rows |-> price_rows(ps, o)] : ps \in PriceSeries, o \in RowOrders}
        \cup {[columns |-> cols, rows |-> price_rows(ps, "ascending")] : cols \in ColumnSets, ps \in ShortSeries}
        \cup {[columns |-> OHLCV, rows |-> price_rows(ps, "ascending")] : ps \in AnySeries}
        \cup {[columns |-> {}, rows |-> EmptyDataFrame]}

\* The window lists: the empty list, lists with a window rolling refuses,
\* with a window twice, with windows of different warm-up lengths.
WindowValues == {0, 1, 2, 4, 6}
WindowLists == UNION {[1..n -> WindowValues] : n \in 0..2}

\* _price_col with 'open' as the last resort.
_price_col_or_open(columns) ==
    IF "adj_close" \in columns THEN "adj_close"
    ELSE IF "adjusted_close" \in columns THEN "adjusted_close"
    ELSE IF "close" \in columns THEN "close"
    ELSE "open"

_price_col(columns) ==
    IF "adj_close" \in columns THEN "adj_close"
    ELSE IF "adjusted_close" \in columns THEN "adjusted_close"
    ELSE "close"

\* IEEE arithmetic on the kinds of cells.  a - b:
minus(a, b) ==
    CASE a = NaN \/ b = NaN -> NaN
      [] a = Num /\ b = Num -> Num
      [] a = b -> NaN
      [] a = PosInf \/ b = NegInf -> PosInf
      [] OTHER -> NegInf

\* a / b for a divisor that is NaN or a positive number.
divide(a, b) == IF b = NaN THEN NaN ELSE a

\* np.log of a price cell: log(0) = -inf, log(inf) = inf.
np_log(p) ==
    CASE p.kind = NaN -> NaN
      [] p.kind = PosInf -> PosInf
      [] p.v = 0 -> NegInf
      [] OTHER -> Num

\* now / prev - 1 of two non-negative price cells: x/0 = inf, 0/0 = NaN,
\* inf/inf = NaN, x/inf = 0.
pct(now, prev) ==
    CASE now.kind = NaN \/ prev.kind = NaN -> NaN
      [] prev.kind = PosInf -> IF now.kind = PosInf THEN NaN ELSE Num
      [] prev.v = 0 -> IF now.kind = Num /\ now.v = 0 THEN NaN ELSE PosInf
      [] OTHER -> IF now.kind = PosInf THEN PosInf ELSE Num

\* pct_change(periods=k) of the price column and diff() of a column: NaN
\* where the earlier row does not exist.
pct_change(price, k) == [i \in 1..Len(price) |-> IF i - k >= 1 THEN pct(price[i], price[i - k]) ELSE NaN]
diff(col) == [i \in 1..Len(col) |-> IF i - 1 >= 1 THEN minus(col[i], col[i - 1]) ELSE NaN]

\* max(1, w//2)
min_periods(w) == IF w \div 2 >= 1 THEN w \div 2 ELSE 1

\* rolling(window=w, min_periods=max(1, w//2)): the rows of the window that
\* ends at row i, and those of them that hold a number (rolling takes an
\* infinite cell for a missing one).
window_rows(i, w) == {j \in 1..i : j > i - w}
observations(col, i, w) == {j \in window_rows(i, w) : col[j] = Num}

\* .mean(): a number from min_periods observations on.
rolling_mean(col, w) == [i \in 1..Len(col) |-> cell(Cardinality(observations(col, i, w)) >= min_periods(w))]

\* .std() (ddof=1): a number from min_periods observations on, and from two
\* on.
rolling_std(col, w) ==
    [i \in 1..Len(col) |->
        cell(Cardinality(observations(col, i, w)) >= min_periods(w) /\ Cardinality(observations(col, i, w)) >= 2)]

\* price[j]/price[j-1] of a row whose return is a number, as a fraction.
ratio(price, j) == IF price[j - 1].kind = PosInf THEN <<0, 1>> ELSE <<price[j].v, price[j - 1].v>>

\* The rolling std of ret is zero at row i: the returns of the window are
\* all equal.
zero_std(price, ret, i, w) ==
    \A j, k \in observations(ret, i, w) :
        ratio(price, j)[1] * ratio(price, k)[2] = ratio(price, k)[1] * ratio(price, j)[2]

\* rolling_std.replace(0, 1): a zero std divides like a number.
replace_zero_by_one(std, zero) == std

\* rolling_std.replace(0, np.nan)
replace_zero(std, zero) == IF std = Num /\ zero THEN NaN ELSE std

\* pct_change(periods=w) with periods=1: momentum is the one-day return.
mom_of_one_day(price, w) == pct_change(price, 1)

\* mom_{w} = price.pct_change(periods=w)
mom(price, w) == pct_change(price, w)

\* The column names of a window without vov_{w}.
window_columns_no_vov(w) == {"mom_" \o ToString(w), "rv_" \o ToString(w), "z_ret_" \o ToString(w)}

\* The column names the loop assigns for window w.
window_columns(w) == {"mom_" \o ToString(w), "rv_" \o ToString(w), "vov_" \o ToString(w), "z_ret_" \o ToString(w)}

\* The frame without the final replace: infinite cells stay.
keep_inf(c) == c

\* df.replace([np.inf, -np.inf], np.nan) on a cell.
replace_inf(c) == IF c \in {PosInf, NegInf} THEN NaN ELSE c

\* The feature columns of the rows in date order, before the final
\* replace: ret, logret and, for each window of the list, the four columns
\* of the window.  A later assignment to a column replaces the earlier one.
feature_cells(price, windows) ==
    LET n == Len(price)
        ret == pct_change(price, 1)
        logret == diff([i \in 1..n |-> np_log(price[i])])
        rv(w) == rolling_std(logret, w)
        z_ret(w) == [i \in 1..n |->
                        divide(minus(ret[i], rolling_mean(ret, w)[i]),
                               replace_zero(rolling_std(ret, w)[i], zero_std(price, ret, i, w)))]
        of_window(c, w) == CASE c = "mom_" \o ToString(w) -> mom(price, w)
                             [] c = "rv_" \o ToString(w) -> rv(w)
                             [] c = "vov_" \o ToString(w) -> rolling_std(rv(w), w)
                             [] OTHER -> z_ret(w)
        names == {"ret", "logret"} \cup UNION {window_columns(windows[k]) : k \in 1..Len(windows)}
    IN  [c \in names |->
            CASE c = "ret" -> ret
              [] c = "logret" -> logret
              [] OTHER -> LET k == CHOOSE k \in 1..Len(windows) : c \in window_columns(windows[k])
                          IN  of_window(c, windows[k])]

\* compute_standard_features after its test for the empty frame: KeyError
\* without a Date or a price column; otherwise what compute_standard_features
\* gives for the rows, with the feature columns, every infinite cell of the
\* frame replaced.
featurize_rows(table, windows) ==
    LET out == compute_standard_features(table.rows, windows)
        cells == feature_cells([i \in 1..Len(out.rows) |-> out.rows[i].price], windows)
    IN  IF "Date" \notin table.columns \/ _price_col(table.columns) \notin table.columns THEN Raise("KeyError")
        ELSE IF out.raised THEN Raise("ValueError")
        ELSE ReturnDF([columns |-> table.columns \cup DOMAIN cells,
                       rows |-> [i \in 1..Len(out.rows) |->
                                    [out.rows[i] EXCEPT !.price = [kind |-> replace_inf(@.kind),
                                                                   v |-> IF @.kind = Num THEN @.v ELSE 0]]],
                       cells |-> [c \in DOMAIN cells |-> [i \in 1..Len(out.rows) |-> replace_inf(cells[c][i])]]])

\* compute_standard_features without `if df.empty: return df`.
featurize_without_empty_test(table, windows) == featurize_rows(table, windows)

\* compute_standard_features on a table with its columns: the empty table
\* as it is, otherwise as above.
featurize(table, windows) ==
    IF empty(table.rows) THEN ReturnDF([columns |-> table.columns, rows |-> table.rows, cells |-> <<>>])
    ELSE featurize_rows(table, windows)

\* The function without df.copy() and with sort_values(inplace=True): the
\* caller's frame is the frame the function worked on.
caller_table_in_place(table, windows) ==
    LET res == featurize(table, windows)
    IN  IF res.kind = "df" THEN [columns |-> res.df.columns, rows |-> res.df.rows] ELSE table

\* The caller's frame after the call: the function works on df.copy(), and
\* sort_values and reset_index return new frames, so the column assignments
\* and the replace(inplace=True) never reach the frame that was passed.
caller_table(table, windows) == table

\* The caller's list after the call: the loop only reads it.
caller_windows(windows) == windows

\* compute_standard_features(df, windows).  df and windows are what the
\* caller passed; df_after and windows_after are the caller's objects when
\* the call is back.
call_compute_standard_features ==
    /\ Idle
    /\ \E table \in PriceTables, windows \in WindowLists :
          call' = [op |-> "compute_standard_features", df |-> table, windows |-> windows,
                   price_col |-> _price_col(table.columns),
                   ret |-> featurize(table, windows),
                   df_after |-> caller_table(table, windows), windows_after |-> caller_windows(windows),
                   again |-> Pending]
    /\ UNCHANGED <<config, environ, universe, cache, features, ft>>

\* The caller calls once more with the objects it passed before.
call_compute_standard_features_again ==
    /\ call.op = "compute_standard_features"
    /\ call.again = Pending
    /\ call' = [call EXCEPT !.again = featurize(call.df_after, call.windows_after),
                            !.df_after = caller_table(call.df_after, call.windows_after),
                            !.windows_after = caller_windows(call.windows_after)]
    /\ UNCHANGED <<config, environ, universe, cache, features, ft>>

\* rolling_pairwise_correlation(df, left, right, window) on a long table: a
\* row of it is a (Date, ticker) pair; the values of the price column and of
\* the correlation are not modelled.
PriceColumnSets == SUBSET {"adj_close", "adjusted_close", "close"}
LongColumnSets == {{"Date", "ticker"} \cup pc : pc \in PriceColumnSets} \cup {{"Date", "close"}}
\* The rows by ticker, then by date; a table may hold a pair twice.
PairOrder(r) == IF r.ticker = "AAA" THEN r.Date ELSE MaxDate + r.Date
RECURSIVE pairs_in_order(_)
pairs_in_order(S) ==
    IF S = {} THEN <<>>
    ELSE LET first == CHOOSE r \in S : \A q \in S : PairOrder(r) <= PairOrder(q)
         IN  <<first>> \o pairs_in_order(S \ {first})
LongRowSets == SUBSET [Date : Dates, ticker : Tickers]
LongTables ==
    {[columns |-> cols, rows |-> pairs_in_order(S)] : cols \in LongColumnSets, S \in LongRowSets}
        \cup {[columns |-> {"Date", "ticker", "close"}, rows |-> pairs_in_order(S) \o <<pairs_in_order(S)[1]>>] :
                 S \in LongRowSets \ {{}}}
CorrTickers == Tickers \cup {"CCC"}
CorrWindows == {0, 2, 20}

\* The series a call returns: its index, the dates in ascending order.
ReturnSeries(index) == [kind |-> "series", df |-> index, exc |-> ""]

\* price_col = 'adj_close' if 'adj_close' in df.columns else 'close'
corr_price_col(columns) == IF "adj_close" \in columns THEN "adj_close" ELSE "close"

\* The index of df.pivot(index='Date', ...): the distinct dates, ascending.
RECURSIVE ascending(_)
ascending(D) == IF D = {} THEN <<>> ELSE LET d == CHOOSE x \in D : \A y \in D : x <= y IN <<d>> \o ascending(D \ {d})
pivot_index(rows) == ascending({rows[i].Date : i \in 1..Len(rows)})
\* pivot cannot reshape a table that has a (Date, ticker) pair twice.
duplicate_entries(rows) == \E i, j \in 1..Len(rows) : i # j /\ rows[i] = rows[j]
\* The columns of the wide table: the tickers of the rows.
wide_columns(rows) == {rows[i].ticker : i \in 1..Len(rows)}

rolling_pairwise_correlation(df, left, right, window) ==
    LET price_col == corr_price_col(df.columns)
    IN  IF {"Date", "ticker", price_col} \ df.columns # {} THEN Raise("KeyError")
        ELSE IF duplicate_entries(df.rows) THEN Raise("ValueError")
        ELSE IF left \notin wide_columns(df.rows) \/ right \notin wide_columns(df.rows) THEN Raise("KeyError")
        ELSE IF rolling_raises(window) THEN Raise("ValueError")
        ELSE ReturnSeries(pivot_index(df.rows))

call_rolling_pairwise_correlation ==
    /\ Idle
    /\ \E df \in LongTables, left \in CorrTickers, right \in CorrTickers, window \in CorrWindows :
          call' = [op |-> "rolling_pairwise_correlation", df |-> df, left |-> left, right |-> right,
                   window |-> window, price_col |-> corr_price_col(df.columns),
                   ret |-> rolling_pairwise_correlation(df, left, right, window)]
    /\ UNCHANGED <<config, environ, universe, cache, features, ft>>

\* retry_attempts: int = 3, retry_delay: float = 1.0 are the constructors'
\* defaults.
DefaultRetryAttempts == 3
DefaultRetryDelay == 1

\* ------------------------------------------------------- DataClientFactory
\* The source argument of create: the three modes and a name that is none
\* of them.
Sources == {"auto", "factset", "yfinance", "bloomberg"}

\* The api_key keyword a caller may pass through **kwargs.
ApiKeyArgs == {Unset, "key"}

\* FACTSET_API_KEY is not set, set to the empty string, or set to a key.
EnvValues == {Unset, "", "key"}

\* bool(v) of a value that is None or a string.
truthy(v) == v \notin {Unset, ""}

\* os.getenv("FACTSET_API_KEY")
getenv == environ.FACTSET_API_KEY

\* How the making of a client goes apart from its credential: it works, the
\* import of the client module fails (a dependency is missing), or the
\* mkdir of the cache directory fails.
ConstructOutcomes == {"ok", "ImportError", "OSError"}

ReturnClient(class) == [kind |-> "client", df |-> class, exc |-> ""]

\* _create_factset: the import, then FactSetClient.__init__ (the credential
\* check, then the cache directory).
_create_factset(api_key, cd, o) ==
    IF o = "ImportError" THEN Raise("ImportError")
    ELSE IF ~truthy(IF truthy(api_key) THEN api_key ELSE getenv) THEN Raise("ValueError")
    ELSE IF cd /\ o = "OSError" THEN Raise("OSError")
    ELSE ReturnClient("factset")

\* _create_yfinance: the import, then YFinanceClient(...), which takes no
\* api_key keyword.
_create_yfinance(api_key, cd, o) ==
    IF o = "ImportError" THEN Raise("ImportError")
    ELSE IF api_key # Unset THEN Raise("TypeError")
    ELSE IF cd /\ o = "OSError" THEN Raise("OSError")
    ELSE ReturnClient("yfinance")

\* create in automatic mode with the fallback left out: a FactSet client
\* that cannot be made is an error of create.
create_auto_no_fallback(api_key, cd, of, oy) ==
    IF truthy(getenv)
    THEN [ret |-> _create_factset(api_key, cd, of), constructed |-> <<"factset">>]
    ELSE [ret |-> _create_yfinance(api_key, cd, oy), constructed |-> <<"yfinance">>]

\* create(source="auto"): FactSet when the key is in the environment and
\* the client can be made, else yfinance.
create_auto(api_key, cd, of, oy) ==
    IF truthy(getenv) /\ _create_factset(api_key, cd, of).kind = "client"
    THEN [ret |-> _create_factset(api_key, cd, of), constructed |-> <<"factset">>]
    ELSE [ret |-> _create_yfinance(api_key, cd, oy),
          constructed |-> IF truthy(getenv) THEN <<"factset", "yfinance">> ELSE <<"yfinance">>]

\* create with an explicit source falling back to yfinance when the FactSet
\* client cannot be made.
create_explicit_fallback(source, api_key, cd, of, oy) ==
    CASE source = "factset" ->
            IF _create_factset(api_key, cd, of).kind = "client"
            THEN [ret |-> _create_factset(api_key, cd, of), constructed |-> <<"factset">>]
            ELSE [ret |-> _create_yfinance(api_key, cd, oy), constructed |-> <<"factset", "yfinance">>]
      [] source = "yfinance" -> [ret |-> _create_yfinance(api_key, cd, oy), constructed |-> <<"yfinance">>]
      [] OTHER -> [ret |-> Raise("ValueError"), constructed |-> <<>>]

\* create with an explicit source, or with a source that is no mode.
create_explicit(source, api_key, cd, of, oy) ==
    CASE source = "factset" -> [ret |-> _create_factset(api_key, cd, of), constructed |-> <<"factset">>]
      [] source = "yfinance" -> [ret |-> _create_yfinance(api_key, cd, oy), constructed |-> <<"yfinance">>]
      [] OTHER -> [ret |-> Raise("ValueError"), constructed |-> <<>>]

\* DataClientFactory.create(source, cache_dir, **kwargs); constructed is the
\* client classes whose making was tried, in order.
create(source, api_key, cd, of, oy) ==
    IF source = "auto" THEN create_auto(api_key, cd, of, oy)
    ELSE create_explicit(source, api_key, cd, of, oy)

\* DataClientFactory.get_available_sources()
get_available_sources == IF truthy(getenv) THEN <<"factset", "yfinance">> ELSE <<"yfinance">>

\* The caller creates a client; the client made becomes the client in use.
call_create ==
    /\ Idle
    /\ \E source \in Sources, api_key \in ApiKeyArgs, cd \in BOOLEAN,
          of \in ConstructOutcomes, oy \in ConstructOutcomes :
          LET made == create(source, api_key, cd, of, oy)
          IN  /\ call' = [op |-> "create", source |-> source, api_key |-> api_key,
                          constructed |-> made.constructed, ret |-> made.ret]
              /\ IF made.ret.kind = "client"
                 THEN /\ provider' = made.ret.df
                      /\ cache_dir' = cd
                      /\ retry_attempts' = DefaultRetryAttempts
                      /\ retry_delay' = DefaultRetryDelay
                 ELSE UNCHANGED config
    /\ UNCHANGED <<cache, features, ft, environ, universe>>

call_get_available_sources ==
    /\ Idle
    /\ call' = [op |-> "get_available_sources", ret |-> ReturnList(get_available_sources)]
    /\ UNCHANGED <<config, cache, features, ft, environ, universe>>

\* ------------------------------------------------------------ data.universe
\* TOP_200_LIQUID_US_EQUITIES as the module defines it.
Top200 ==
    <<"AAPL", "MSFT", "GOOGL", "AMZN", "NVDA", "META", "TSLA", "AVGO", "ORCL", "ADBE", "CRM",
      "AMD", "INTC", "CSCO", "QCOM", "TXN", "AMAT", "MU", "LRCX", "KLAC", "NFLX", "PYPL",
      "SNOW", "NOW", "PANW", "CRWD", "ZS", "DDOG", "NET", "TEAM", "UBER", "ABNB", "LYFT",
      "DASH", "COIN", "SQ", "SHOP", "MELI", "SE", "BABA", "JPM", "BAC", "WFC", "C", "GS", "MS",
      "BLK", "SCHW", "AXP", "SPGI", "CME", "ICE", "BX", "KKR", "V", "MA", "FIS", "FISV", "ADP",
      "TFC", "UNH", "JNJ", "LLY", "ABBV", "MRK", "TMO", "ABT", "DHR", "PFE", "BMY", "AMGN",
      "GILD", "REGN", "VRTX", "BIIB", "MRNA", "ISRG", "SYK", "BSX", "MDT", "HD", "NKE", "MCD",
      "SBUX", "TGT", "LOW", "BKNG", "MAR", "GM", "F", "RIVN", "LCID", "CMG", "YUM", "DRI",
      "ULTA", "LULU", "ROST", "HLT", "DG", "PG", "KO", "PEP", "WMT", "COST", "PM", "MO", "CL",
      "MDLZ", "KHC", "GIS", "K", "HSY", "CAG", "CPB", "MKC", "SJM", "KMB", "CLX", "CHD", "XOM",
      "CVX", "COP", "SLB", "EOG", "MPC", "PSX", "VLO", "OXY", "HAL", "DVN", "FANG", "PXD",
      "HES", "MRO", "APA", "BKR", "NOV", "FTI", "WMB", "BA", "HON", "UNP", "CAT", "RTX", "LMT",
      "GE", "DE", "MMM", "UPS", "FDX", "NSC", "CSX", "EMR", "ETN", "ITW", "PH", "CARR", "PCAR",
      "ROK", "LIN", "APD", "ECL", "SHW", "DD", "NEM", "FCX", "DOW", "ALB", "CE", "PPG", "NUE",
      "VMC", "MLM", "CF", "MOS", "IFF", "FMC", "EMN", "IP", "AMT", "PLD", "CCI", "EQIX", "PSA",
      "SPG", "O", "WELL", "DLR", "AVB", "NEE", "DUK", "SO", "D", "AEP", "EXC", "SRE", "XEL",
      "WEC", "ES">>

\* The keys of SECTOR_MAPPING and the list of each, as the module defines
\* them.
Sectors == {"Technology", "Financials", "Healthcare", "Consumer", "Energy", "Industrials"}
SectorList(s) ==
    CASE
       s = "Technology" ->
          <<"AAPL", "MSFT", "GOOGL", "NVDA", "META", "AVGO", "ORCL", "ADBE", "CRM", "AMD">>
    [] s = "Financials" ->
          <<"JPM", "BAC", "WFC", "C", "GS", "MS", "BLK", "SCHW", "AXP", "V", "MA">>
    [] s = "Healthcare" ->
          <<"UNH", "JNJ", "LLY", "ABBV", "MRK", "TMO", "ABT", "DHR", "PFE", "AMGN">>
    [] s = "Consumer" ->
          <<"AMZN", "HD", "NKE", "MCD", "WMT", "COST", "TGT", "LOW", "SBUX", "PG">>
    [] s = "Energy" ->
          <<"XOM", "CVX", "COP", "SLB", "EOG", "MPC", "PSX", "VLO", "OXY", "HAL">>
    [] s = "Industrials" ->
          <<"BA", "HON", "UNP", "CAT", "RTX", "LMT", "GE", "DE", "UPS", "FDX">>

\* The module after its import: the two module-level objects.
Imported == [TOP_200_LIQUID_US_EQUITIES |-> Top200, SECTOR_MAPPING |-> [s \in Sectors |-> SectorList(s)]]

\* The names callers ask for: the universe, the ones the docstring lists
\* besides it, a sector in its spelling and in lower case.
UniverseNames == {"top200", "sp500", "custom", "Technology"}
SectorNames == Sectors \cup {"technology", "top200"}

\* get_universe(name): the module's list itself, or ValueError.
get_universe(name) ==
    IF name = "top200" THEN ReturnList(universe.TOP_200_LIQUID_US_EQUITIES)
    ELSE Raise("ValueError")

\* get_sector_tickers with SECTOR_MAPPING.get(sector, []) in place of the
\* membership test: an unknown sector gives an empty list.
get_sector_tickers_or_empty(sector) ==
    IF sector \in DOMAIN universe.SECTOR_MAPPING THEN ReturnList(universe.SECTOR_MAPPING[sector])
    ELSE ReturnList(<<>>)

\* get_sector_tickers(sector): the list of the mapping itself, or ValueError.
get_sector_tickers(sector) ==
    IF sector \in DOMAIN universe.SECTOR_MAPPING THEN ReturnList(universe.SECTOR_MAPPING[sector])
    ELSE Raise("ValueError")

call_get_universe ==
    /\ Idle
    /\ \E name \in UniverseNames :
          call' = [op |-> "get_universe", name |-> name, ret |-> get_universe(name)]
    /\ UNCHANGED <<config, cache, features, ft, environ, universe>>

call_get_sector_tickers ==
    /\ Idle
    /\ \E sector \in SectorNames :
          call' = [op |-> "get_sector_tickers", name |-> sector, ret |-> get_sector_tickers(sector)]
    /\ UNCHANGED <<config, cache, features, ft, environ, universe>>

\* How far a list is from the one the module defined: the elements popped
\* off its end and the elements appended since.
Min(m, n) == IF m <= n THEN m ELSE n
CommonPrefix(a, b) ==
    LET differ == {i \in 1..Min(Len(a), Len(b)) : a[i] # b[i]}
    IN  IF differ = {} THEN Min(Len(a), Len(b))
        ELSE (CHOOSE i \in differ : \A j \in differ : i <= j) - 1
Edits(now, was) == (Len(was) - CommonPrefix(now, was)) + (Len(now) - CommonPrefix(now, was))

RECURSIVE Sum(_, _)
Sum(f, S) == IF S = {} THEN 0 ELSE LET x == CHOOSE y \in S : TRUE IN f[x] + Sum(f, S \ {x})

CallerEdits ==
    Edits(universe.TOP_200_LIQUID_US_EQUITIES, Top200)
        + Sum([s \in Sectors |-> Edits(universe.SECTOR_MAPPING[s], SectorList(s))], Sectors)

\* The list operations of the caller: append a symbol, pop the last one.
ListOps == {"append", "pop"}
apply(l, o) == IF o = "append" THEN Append(l, "ZZZ") ELSE SubSeq(l, 1, Len(l) - 1)

\* The caller operates on the list a call has returned.  The list is the
\* module's own object, so the module's list changes with it.
caller_changes_list ==
    /\ call.op \in {"get_universe", "get_sector_tickers"}
    /\ call.ret.kind = "list"
    /\ CallerEdits < MaxCallerOps
    /\ \E o \in ListOps :
          /\ o = "pop" => call.ret.df # <<>>
          /\ call' = [call EXCEPT !.ret = ReturnList(apply(call.ret.df, o))]
          /\ universe' = IF call.op = "get_universe"
                         THEN [universe EXCEPT !.TOP_200_LIQUID_US_EQUITIES = apply(call.ret.df, o)]
                         ELSE [universe EXCEPT !.SECTOR_MAPPING[call.name] = apply(call.ret.df, o)]
    /\ UNCHANGED <<config, cache, features, ft, environ>>

\* ------------------------------------------------------- the specifications
\* A client as its constructor leaves it, an empty cache directory and an
\* empty feature store.
Fresh ==
    /\ environ = [FACTSET_API_KEY |-> Unset]
    /\ universe = NotImported
    /\ cache = [f \in CacheFiles |-> Absent]
    /\ features = [t \in Tickers |-> NoFeatureFile]
    /\ call = CallIdle
    /\ ft = FtIdle

\* fetch_ticker called directly.  A client without a cache directory has
\* any retry budget and delay; a client with one has a short budget and the
\* default delay (the retry loop reads and writes the cache only when an
\* attempt succeeds).
Init ==
    /\ provider \in Providers
    /\ cache_dir \in BOOLEAN
    /\ retry_attempts \in 0..(IF cache_dir THEN MaxShortRetry ELSE MaxRetryAttempts)
    /\ retry_delay \in (IF cache_dir THEN {DefaultRetryDelay} ELSE 0..MaxRetryDelay)
    /\ Fresh

Next ==
    \/ caller_returns
    \/ call_fetch_ticker
    \/ fetch_ticker_attempt

Spec == Init /\ [][Next]_vars

\* fetch_ticker on two clients of different classes that share a cache
\* directory.
InitShared ==
    /\ provider \in Providers
    /\ cache_dir = TRUE
    /\ retry_attempts \in 0..MaxShortRetry
    /\ retry_delay = DefaultRetryDelay
    /\ Fresh

NextShared ==
    \/ caller_returns
    \/ other_client
    \/ call_fetch_ticker_shared
    \/ fetch_ticker_attempt

SpecShared == InitShared /\ [][NextShared]_vars

\* The factory, in a process that has no client yet, for each value of
\* FACTSET_API_KEY.
InitFactory ==
    /\ provider = "none"
    /\ cache_dir = FALSE
    /\ retry_attempts = DefaultRetryAttempts
    /\ retry_delay = DefaultRetryDelay
    /\ environ \in [FACTSET_API_KEY : EnvValues]
    /\ universe = NotImported
    /\ cache = [f \in CacheFiles |-> Absent]
    /\ features = [t \in Tickers |-> NoFeatureFile]
    /\ call = CallIdle
    /\ ft = FtIdle

NextFactory ==
    \/ caller_returns
    \/ call_create
    \/ call_get_available_sources

SpecFactory == InitFactory /\ [][NextFactory]_vars

\* The universe module, imported, and a caller of its two functions.
InitUniverse ==
    /\ provider = "none"
    /\ cache_dir = FALSE
    /\ retry_attempts = DefaultRetryAttempts
    /\ retry_delay = DefaultRetryDelay
    /\ environ = [FACTSET_API_KEY |-> Unset]
    /\ universe = Imported
    /\ cache = [f \in CacheFiles |-> Absent]
    /\ features = [t \in Tickers |-> NoFeatureFile]
    /\ call = CallIdle
    /\ ft = FtIdle

NextUniverse ==
    \/ caller_returns
    \/ call_get_universe
    \/ call_get_sector_tickers
    \/ caller_changes_list

SpecUniverse == InitUniverse /\ [][NextUniverse]_vars

\* compute_standard_features and rolling_pairwise_correlation on the tables
\* and window lists of their callers.
InitFeaturize ==
    /\ provider = "none"
    /\ cache_dir = FALSE
    /\ retry_attempts = DefaultRetryAttempts
    /\ retry_delay = DefaultRetryDelay
    /\ Fresh

NextFeaturize ==
    \/ caller_returns
    \/ call_compute_standard_features
    \/ call_compute_standard_features_again
    \/ call_rolling_pairwise_correlation

SpecFeaturize == InitFeaturize /\ [][NextFeaturize]_vars

\* fetch_bulk over a period (no date range), on a client built with the
\* default cache_dir=None and retry_delay and a short retry budget.
InitBulk ==
    /\ provider \in Providers
    /\ cache_dir = FALSE
    /\ retry_attempts \in 0..MaxShortRetry
    /\ retry_delay = DefaultRetryDelay
    /\ Fresh

NextBulk ==
    \/ caller_returns
    \/ call_fetch_bulk
    \/ fetch_ticker_attempt
    \/ fetch_bulk_step

SpecBulk == InitBulk /\ [][NextBulk]_vars

\* fetch_bulk_optimized on a FactSetClient built with the default
\* cache_dir=None and retry_delay and a short retry budget.
InitOptimized ==
    /\ provider = "factset"
    /\ cache_dir = FALSE
    /\ retry_attempts \in 0..MaxShortRetry
    /\ retry_delay = DefaultRetryDelay
    /\ Fresh

NextOptimized ==
    \/ caller_returns
    \/ call_fetch_bulk_optimized
    \/ fetch_bulk_optimized_step
    \/ fetch_ticker_attempt
    \/ fetch_bulk_step

SpecOptimized == InitOptimized /\ [][NextOptimized]_vars

\* batch_compute, compute_and_store and load on a feature store.  The client is whatever its
\* fetch_ticker gives back (ClientReturns); its configuration is not read.
InitStore ==
    /\ provider = "factset"
    /\ cache_dir = FALSE
    /\ retry_attempts = DefaultRetryAttempts
    /\ retry_delay = DefaultRetryDelay
    /\ Fresh

NextStore ==
    \/ caller_returns
    \/ call_batch_compute
    \/ batch_compute_step
    \/ call_load
    \/ call_compute_and_store

SpecStore == InitStore /\ [][NextStore]_vars

\* ------------------------------------------------------------- properties
\* ---- FeatureStore.batch_compute (SpecStore)

\* C1: batch_compute returns a list and never raises, whatever the fetch of
\* each ticker does (returns data, returns an empty frame, or raises): every
\* ticker of the list is attempted and the call ends with a list.
C1_BatchNeverAborts ==
    (/\ call.op = "batch_compute"
     /\ call.ret.kind # "pending"
     /\ \A i \in 1..Len(call.log) : call.log[i].fetched \in {"df", "empty", "raise"})
        => (call.ret.kind = "list" /\ Len(call.log) = Len(call.tickers))

\* The entries of the batch log whose fetch gave a non-empty frame and whose
\* compute_and_store did not raise.
Stored(log) == SelectSeq(log, LAMBDA e : e.fetched = "df" /\ e.computed = "ok")

\* C2: the list batch_compute returns is exactly the tickers, in input
\* order, whose fetch gave a non-empty frame and whose compute_and_store did
\* not raise; a ticker with an empty fetch is skipped and left out.
C2_BatchResult ==
    (call.op = "batch_compute" /\ call.ret.kind = "list")
        => /\ Len(call.log) = Len(call.tickers)
           /\ \A i \in 1..Len(call.log) : call.log[i].ticker = call.tickers[i]
           /\ call.ret.df = [i \in 1..Len(Stored(call.log)) |-> Stored(call.log)[i].ticker]
           /\ Len(call.ret.df) = Len(call.tickers) - Cardinality({i \in 1..Len(call.log) : call.log[i].fetched = "empty"})
                                                   - Cardinality({i \in 1..Len(call.log) : call.log[i].computed = "raise"})

\* A batch of two tickers, the first fetched empty, the second stored.
C2_Witness ==
    /\ call.op = "batch_compute" /\ call.ret.kind = "list"
    /\ Len(call.tickers) = 2
    /\ call.log[1].fetched = "empty"
    /\ call.log[2].computed = "ok"
    /\ call.ret.df = <<call.tickers[2]>>

\* ---- fetch_ticker (Spec)

\* The request failures that are not FactSet's authentication failure.
Transient == IF provider = "factset" THEN ErrorKinds \ {"auth"} ELSE ErrorKinds

\* C3: when every attempt of a fetch_ticker call has failed with an error
\* other than FactSet's 401, the call returns an empty DataFrame, after
\* exactly retry_attempts requests; the only exception a call ends with is
\* the 401 of FactSetClient.
C3_FailureGivesEmptyFrame ==
    /\ (ft.pc = "done" /\ ft.last \in Transient)
          => (ft.ret = ReturnDF(EmptyDataFrame) /\ ft.requests = retry_attempts)
    /\ ft.ret.kind = "raise"
          => (ft.ret.exc = "HTTPError401" /\ provider = "factset" /\ ft.last = "auth")

\* Three attempts, the last one rate limited, and the call is over.
C3_Witness ==
    /\ ft.pc = "done" /\ ft.last = "rate_limit" /\ ft.requests = 3
    /\ ft.ret = ReturnDF(EmptyDataFrame)

\* The step whose request FactSet answers with 401.
C4_AuthFailureStep ==
    (provider = "factset" /\ ft.pc = "attempt" /\ ft'.requests = ft.requests + 1 /\ ft'.last = "auth")
        => /\ ft'.pc = "done"
           /\ ft'.ret = Raise("HTTPError401")
           /\ ft'.sleeps = ft.sleeps
           /\ ft'.rate_sleeps = ft.rate_sleeps
           /\ ft'.attempt = ft.attempt
           /\ cache' = cache

\* C4: a FactSet request answered with 401 ends the call at once with the
\* HTTPError: the step that makes the request sleeps no backoff, leaves the
\* cache as it is, and no attempt follows it.
C4_AuthFailureIsImmediate ==
    /\ []((provider = "factset" /\ ft.last = "auth")
             => (ft.pc = "done" /\ ft.ret = Raise("HTTPError401") /\ ft.writes = 0
                 /\ ft.requests = ft.attempt + 1 /\ ~ENABLED fetch_ticker_attempt))
    /\ [][C4_AuthFailureStep]_vars

\* A 401 on the second attempt, after one backoff sleep.
C4_Witness ==
    /\ provider = "factset" /\ ft.last = "auth" /\ ft.requests = 2
    /\ Len(ft.sleeps) = 1 /\ ft.ret.kind = "raise"

\* One iteration of the retry loop.
C5_LoopStep ==
    (ft.pc = "attempt" /\ ft' # ft)
        => \/ ft'.pc = "done" /\ ft'.requests = ft.requests + 1
           \/ /\ ft'.pc = "attempt" /\ ft'.attempt = ft.attempt + 1
              /\ ft'.requests = ft.requests + 1 /\ ft'.last \in Transient

\* C5: a fetch_ticker call makes at most retry_attempts requests, exactly
\* retry_attempts when every attempt fails with a retried error, none after
\* the first answer that is data or empty; and the loop ends: an iteration
\* is always possible, and each one either ends the call or moves the
\* attempt number one up, below retry_attempts.
C5_RetryBudget ==
    /\ [](/\ ft.requests <= retry_attempts
          /\ ft.pc = "attempt" => (ft.attempt < retry_attempts /\ ft.requests = ft.attempt /\ ENABLED fetch_ticker_attempt)
          /\ (ft.pc = "done" /\ ft.last \in Transient) => ft.requests = retry_attempts
          /\ ft.last \in {"ok", "no_data"} => ft.pc = "done")
    /\ [][C5_LoopStep]_vars

\* Data on the third and last attempt, after two failures.
C5_Witness ==
    /\ ft.pc = "done" /\ ft.last = "ok" /\ ft.requests = 3 /\ retry_attempts = 3
    /\ Len(ft.sleeps) = 2

\* The step of a failed attempt that is not the last one.
FailedAttempt == ft.pc = "attempt" /\ ft'.pc = "attempt" /\ ft'.attempt = ft.attempt + 1

C6_BackoffStep ==
    /\ FailedAttempt
          => /\ ft'.sleeps = Append(ft.sleeps, IF ft'.last = "rate_limit"
                                               THEN retry_delay * Pow2(ft.attempt) * 2
                                               ELSE retry_delay * Pow2(ft.attempt))
             /\ ft'.last = "rate_limit" => ft'.sleeps[Len(ft'.sleeps)] > retry_delay * Pow2(ft.attempt)
    /\ (ft.pc = "attempt" /\ ft'.pc = "done") => ft'.sleeps = ft.sleeps

\* C6 as the spec states it: after failed attempt k, not the last, either
\* client sleeps retry_delay * 2^k for a generic error and
\* retry_delay * 2^k * 2 for a rate limit, which is strictly longer than the
\* generic delay of the same attempt; the last attempt is followed by no
\* backoff sleep.
C6_BackoffSchedule == [][C6_BackoffStep]_vars

\* Only FactSetClient has a branch for the 429.
DoubledFor429 == provider = "factset" /\ ft'.last = "rate_limit"

C6_BackoffStepByClient ==
    /\ FailedAttempt
          => /\ ft'.sleeps = Append(ft.sleeps, IF DoubledFor429
                                               THEN retry_delay * Pow2(ft.attempt) * 2
                                               ELSE retry_delay * Pow2(ft.attempt))
             /\ (DoubledFor429 /\ retry_delay > 0) => ft'.sleeps[Len(ft'.sleeps)] > retry_delay * Pow2(ft.attempt)
             /\ (ft.attempt > 0 /\ provider = "yfinance")
                   => ft'.sleeps[Len(ft'.sleeps)] = 2 * ft.sleeps[Len(ft.sleeps)]
    /\ (ft.pc = "attempt" /\ ft'.pc = "done") => ft'.sleeps = ft.sleeps

\* C6, amended: after failed attempt k, not the last, both clients sleep
\* retry_delay * 2^k for a generic error; FactSetClient sleeps twice that
\* for a 429, strictly longer when retry_delay is positive; YFinanceClient
\* sleeps the generic delay for a rate limit too, so each of its delays is
\* twice the one before; the last attempt is followed by no backoff sleep.
C6_BackoffScheduleByClient == [][C6_BackoffStepByClient]_vars

\* FactSet, two rate limits in a row: sleeps of 2 and 4 times retry_delay.
C6_Witness ==
    /\ provider = "factset" /\ retry_delay = 1 /\ ft.pc = "attempt"
    /\ ft.sleeps = <<2, 4>>

\* The cache entry a call of fetch_ticker starts from can be loaded.
Loadable(t, iv) == cache_dir /\ cache[CacheFile(provider, t, iv)].state = "parquet"

\* The step that calls fetch_ticker: the cache check on entry.
C9_EntryStep ==
    (ft.pc = "idle" /\ ft'.pc # "idle")
        => /\ (ft'.use_cache /\ Loadable(ft'.ticker, ft'.interval))
                 => /\ ft'.pc = "done"
                    /\ ft'.requests = 0 /\ ft'.sleeps = <<>> /\ ft'.rate_sleeps = 0
                    /\ ft'.ret = ReturnDF(_filter_by_date(read_parquet(cache[CacheFile(provider, ft'.ticker, ft'.interval)].rows),
                                                          ft'.start_date, ft'.end_date))
           /\ ~ft'.use_cache => ft'.reads = 0

\* C9: with use_cache true and a loadable cache entry, fetch_ticker returns
\* the entry, filtered by the date range, with no network request and no
\* sleep; with use_cache false the entry is never read and a network
\* request is made.
C9_CacheReadThrough ==
    /\ [](ft.pc = "done" /\ ~ft.use_cache => (ft.reads = 0 /\ ft.requests >= 1))
    /\ [][C9_EntryStep]_vars

\* What the next fetch_ticker of the same ticker and interval, with the
\* cache on and no date range, would give back in this state.
NextFetch == fetch_ticker_enter(ft.ticker, ft.interval, NoDate, NoDate, TRUE)

\* The call got non-empty data from the network, on a client with a cache.
FetchedFromNetwork == ft.pc = "done" /\ ft.last = "ok" /\ cache_dir /\ ft.ret.kind = "df" /\ ~empty(ft.ret.df)

\* The cache entry holds the returned table and the next fetch is a hit
\* returning the same rows.
WrittenThrough ==
    /\ cache[CacheFile(provider, ft.ticker, ft.interval)] = Parquet(Values(ft.ret.df))
    /\ NextFetch.pc = "done" /\ NextFetch.requests = 0
    /\ NextFetch.ret.kind = "df" /\ Values(NextFetch.ret.df) = Values(ft.ret.df)

Fetched(log) == {log[i].ticker : i \in {j \in 1..Len(log) : log[j].rows > 0}}

RECURSIVE SumRows(_)
SumRows(log) == IF log = <<>> THEN 0 ELSE Head(log).rows + SumRows(Tail(log))

\* C7: the table fetch_bulk returns has rows of exactly the tickers whose
\* fetch_ticker result was non-empty, all the rows of those results, and it
\* is empty if and only if no ticker of the list was fetched.
C7_BulkResult ==
    (call.op = "fetch_bulk" /\ call.ret.kind = "df")
        => /\ Len(call.log) = Len(call.tickers)
           /\ \A i \in 1..Len(call.log) : call.log[i].ticker = call.tickers[i]
           /\ {call.ret.df[i].ticker : i \in 1..Len(call.ret.df)} = Fetched(call.log)
           /\ Len(call.ret.df) = SumRows(call.log)
           /\ empty(call.ret.df) <=> Fetched(call.log) = {}

\* BBB fetched, then AAA failed: the table is the rows of BBB.
C7_Witness ==
    /\ call.op = "fetch_bulk" /\ call.ret.kind = "df"
    /\ call.tickers = <<"BBB", "AAA">>
    /\ call.log[1].rows > 0 /\ call.log[2].rows = 0
    /\ ~empty(call.ret.df)

\* C8: whatever way the fetch of one ticker fails (transient error, rate
\* limit, authentication failure), fetch_bulk fetches the remaining tickers
\* and returns a table.
C8_BulkIsolatesFailures ==
    (call.op = "fetch_bulk" /\ call.ret.kind # "pending" /\ ft.ret.kind # "None")
        => (call.ret.kind = "df" /\ Len(call.log) = Len(call.tickers))

\* A row lies in the caller's range: each bound counts only when given.
InRange(r, start, end) == (start = NoDate \/ r.Date >= start) /\ (end = NoDate \/ r.Date <= end)

\* The step of a fetch_ticker call that is served from the cache.
C11_HitStep ==
    (ft.pc = "idle" /\ ft'.pc = "done" /\ ft'.requests = 0 /\ ft'.ret.kind = "df")
        => LET cached == read_parquet(cache[CacheFile(provider, ft'.ticker, ft'.interval)].rows)
           IN  /\ ft'.ret.df = SelectSeq(cached, LAMBDA r : InRange(r, ft'.start_date, ft'.end_date))
               /\ (ft'.start_date = NoDate /\ ft'.end_date = NoDate) => ft'.ret.df = cached
               /\ cache' = cache

\* C11: on a cache hit fetch_ticker returns exactly the cached rows, in
\* their order, whose Date is >= start_date when start_date is given and
\* <= end_date when end_date is given, each bound on its own; with no bound
\* it returns all cached rows; the cache entry is left as it is.
C11_CacheHitFilter == [][C11_HitStep]_vars

\* A hit with a lower bound that keeps some of the cached rows and drops
\* others.
C11_Witness ==
    /\ ft.pc = "done" /\ ft.requests = 0 /\ ft.ret.kind = "df"
    /\ ft.start_date = MaxDate /\ ft.end_date = NoDate
    /\ ~empty(ft.ret.df)
    /\ Len(ft.ret.df) < Len(cache[CacheFile(provider, ft.ticker, ft.interval)].rows)

\* ---- cache keying (SpecShared)

\* Ticker symbols and intervals as the providers write them.
KeyTickers == Tickers \cup {"AA", "BRK-B"}
KeyIntervals == Intervals \cup {"1h", "1wk"}
Keys == Providers \X KeyTickers \X KeyIntervals

\* The key of the fetch_ticker call in progress.
OwnKey == <<provider, ft'.ticker, ft'.interval>>

\* A step of a fetch leaves the entry of every other key as it is, and
\* its cache check looks at the entry of its own key only.
C12_KeyStep ==
    /\ \A k \in Providers \X Tickers \X Intervals :
          (ft'.pc # "idle" /\ k # OwnKey) => cache'[CacheFile(k[1], k[2], k[3])] = cache[CacheFile(k[1], k[2], k[3])]
    /\ ft'.pc = "idle" => cache' = cache
    /\ (ft.pc = "idle" /\ ft'.pc # "idle" /\ ft'.use_cache)
          => ((ft'.pc = "done" /\ ft'.ret.kind = "df" /\ ft'.requests = 0)
                 <=> cache[CacheFile(provider, ft'.ticker, ft'.interval)].state = "parquet")

\* C12: distinct (ticker, interval, provider) keys name distinct cache
\* files, and a fetch for one key never reads or overwrites the entry of
\* another key, also when a FactSetClient and a YFinanceClient share the
\* cache directory.
C12_CacheKeying ==
    /\ [](\A k1 \in Keys, k2 \in Keys : k1 # k2 => CacheFile(k1[1], k1[2], k1[3]) # CacheFile(k2[1], k2[2], k2[3]))
    /\ [][C12_KeyStep]_vars

\* Both clients have cached the shared ticker, with different rows, and the
\* YFinanceClient is served its own entry.
C12_Witness ==
    /\ provider = "yfinance" /\ ft.pc = "done" /\ ft.requests = 0 /\ ft.ret.kind = "df"
    /\ cache[CacheFile("factset", SharedTicker, "1d")].state = "parquet"
    /\ cache[CacheFile("yfinance", SharedTicker, "1d")].state = "parquet"
    /\ cache[CacheFile("factset", SharedTicker, "1d")] # cache[CacheFile("yfinance", SharedTicker, "1d")]
    /\ Values(ft.ret.df) = cache[CacheFile("yfinance", SharedTicker, "1d")].rows

\* ---- DataClientFactory (SpecFactory)

\* create was called in automatic mode and has come back.
AutoCreated == call.op = "create" /\ call.source = "auto"

\* C13 as the spec states it: create in automatic mode returns the FactSet
\* client when FACTSET_API_KEY is present in the environment and the
\* yfinance client otherwise; the client is of the first source that
\* get_available_sources lists; no error for a missing credential is raised.
C13_AutoSelection ==
    AutoCreated
        => /\ call.ret.kind = "client"
                 => /\ call.ret.df = "factset" <=> getenv # Unset
                    /\ call.ret.df = get_available_sources[1]
           /\ call.ret.exc # "ValueError"

\* C13, amended: in automatic mode the FactSet client is tried first exactly
\* when FACTSET_API_KEY is set to a non-empty value, which is when
\* get_available_sources lists it first, and it is returned when it can be
\* made; when it cannot, its error is swallowed and the yfinance client is
\* made instead; with no key, or an empty one, only the yfinance client is
\* made; create raises no error for a missing credential, and none that
\* comes from the FactSet client.
C13_AutoSelectionWithFallback ==
    AutoCreated
        => /\ call.constructed[1] = get_available_sources[1]
           /\ truthy(getenv) <=> call.constructed[1] = "factset"
           /\ call.ret.kind = "client" => call.ret.df = call.constructed[Len(call.constructed)]
           /\ call.constructed \in {<<"factset">>, <<"yfinance">>, <<"factset", "yfinance">>}
           /\ call.constructed = <<"factset">> => call.ret = ReturnClient("factset")
           /\ call.ret.exc # "ValueError"

\* The key is set, the FactSet client could not be made, and create gave
\* the yfinance client.
C13_Witness ==
    /\ AutoCreated /\ getenv = "key"
    /\ call.constructed = <<"factset", "yfinance">>
    /\ call.ret = ReturnClient("yfinance")

\* C14: create(source="factset") with no api_key argument and no
\* FACTSET_API_KEY raises and neither makes nor returns a yfinance client
\* (no explicit source falls back to another client); create with a source
\* that is no mode raises ValueError without making any client.
C14_ConfigurationErrors ==
    call.op = "create"
        => /\ (call.source = "factset" /\ ~truthy(call.api_key) /\ ~truthy(getenv))
                 => (call.ret.kind = "raise" /\ call.ret.exc \in {"ValueError", "ImportError"})
           /\ call.source = "factset"
                 => (call.constructed = <<"factset">> /\ call.ret.df # "yfinance")
           /\ call.source = "yfinance"
                 => (call.constructed = <<"yfinance">> /\ call.ret.df # "factset")
           /\ call.source \notin {"auto", "factset", "yfinance"}
                 => (call.ret = Raise("ValueError") /\ call.constructed = <<>>)

\* FACTSET_API_KEY is set to the empty string, no api_key is passed, and
\* create(source="factset") raised the ValueError of the missing key.
C14_Witness ==
    /\ call.op = "create" /\ call.source = "factset" /\ call.api_key = Unset
    /\ getenv = ""
    /\ call.ret = Raise("ValueError")

C16_UniverseImmutable ==
    /\ Len(universe.TOP_200_LIQUID_US_EQUITIES) = 200
    /\ universe.TOP_200_LIQUID_US_EQUITIES = Top200
    /\ \A s \in Sectors : universe.SECTOR_MAPPING[s] = SectorList(s)

\* ---- FeatureStore.load and compute_and_store (SpecStore)

\* The ticker whose feature file a step may write: the one compute_and_store
\* was called for, or the one the batch_compute loop is at.
Processed(t) ==
    \/ call'.op = "compute_and_store" /\ call'.ticker = t
    \/ call.op = "batch_compute" /\ call.ret.kind = "pending" /\ call.tickers[call.idx] = t

\* A step leaves the feature file of every ticker it does not process as
\* it is.
C17_OtherTickersStep == \A t \in Tickers : features'[t] # features[t] => Processed(t)

\* What load has returned for a ticker without a readable stored table.
C17_LoadState ==
    call.op = "load"
        => /\ call.ret.kind = "df"
           /\ (features[call.ticker].state # "parquet" \/ call.read # "ok")
                 => call.ret.df = EmptyFeatureTable

\* C17: load(t) returns the empty table and does not raise for a ticker
\* without a stored entry, and compute_and_store, batch_compute and load on
\* other tickers give t no entry; load also returns the empty table, and
\* does not raise, when the stored file cannot be read.
C17_LoadMissingIsEmpty == []C17_LoadState /\ [][C17_OtherTickersStep]_vars

\* load of a ticker without an entry, while the other ticker has a stored
\* table, returned the empty table.
C17_Witness ==
    /\ call.op = "load" /\ features[call.ticker].state = "absent"
    /\ \E t \in Tickers \ {call.ticker} : features[t].state = "parquet" /\ features[t].rows # <<>>
    /\ call.ret = ReturnDF(EmptyFeatureTable)

\* C18: when the write of the feature file fails, compute_and_store does
\* not raise and returns the table compute_standard_features computed, the
\* one it returns when the write succeeds.
C18_WriteFailureReturnsTable ==
    (call.op = "compute_and_store" /\ call.write \in WriteOutcomes \ {"ok"})
        => LET feats == compute_standard_features(call.raw_df, windows_or_default(call.windows))
               written == compute_and_store(call.ticker, call.raw_df, call.windows, "ok")
           IN  /\ call.ret.kind = "df"
               /\ call.ret.df = FeatureTable(feats.rows, feats.windows)
               /\ ~written.raised
               /\ call.ret.df = FeatureTable(written.df_feats.rows, written.df_feats.windows)

\* The write failed, nothing was stored, and the call returned a table
\* with rows and the default windows.
C18_Witness ==
    /\ call.op = "compute_and_store" /\ call.write = "error"
    /\ features[call.ticker].state = "absent"
    /\ call.ret.kind = "df" /\ call.ret.df.rows # <<>> /\ call.ret.df.windows = DefaultWindows

\* ---- compute_standard_features (SpecFeaturize)

\* The call, and a table with a Date column and a recognised price column.
Featurized == call.op = "compute_standard_features"
ValidTable(table) == "Date" \in table.columns /\ _price_col(table.columns) \in table.columns

\* The output has one row per input row and 2 + 4*len(windows) columns
\* more than the input.
WiderBy(table, windows, ret) ==
    /\ ret.kind = "df"
    /\ Len(ret.df.rows) = Len(table.rows)
    /\ Cardinality(ret.df.columns) = Cardinality(table.columns) + 2 + 4 * Len(windows)

\* C19 as stated: for any valid OHLCV table and any window list the output
\* of compute_standard_features has one row per input row and exactly
\* 2 + 4*len(windows) more columns than the input.
C19_RowsAndColumns ==
    (Featurized /\ ValidTable(call.df)) => WiderBy(call.df, call.windows, call.ret)

\* The windows are positive and no window is in the list twice.
DistinctPositive(windows) ==
    /\ \A k \in 1..Len(windows) : windows[k] >= 1
    /\ \A j, k \in 1..Len(windows) : j # k => windows[j] # windows[k]

\* No column of the table has the name of a feature column of the call.
NoFeatureColumn(table, windows) ==
    table.columns \cap ({"ret", "logret"} \cup UNION {window_columns(windows[k]) : k \in 1..Len(windows)}) = {}

\* C19: for a valid OHLCV table every output compute_standard_features
\* returns has one row per input row; for a non-empty valid table without
\* feature-named columns and a list of distinct positive windows it returns
\* an output with exactly 2 + 4*len(windows) more columns than the input.
C19_RowsAndColumnsOfDistinctWindows ==
    (Featurized /\ ValidTable(call.df))
        => /\ call.ret.kind = "df" => Len(call.ret.df.rows) = Len(call.df.rows)
           /\ (~empty(call.df.rows) /\ DistinctPositive(call.windows) /\ NoFeatureColumn(call.df, call.windows))
                 => WiderBy(call.df, call.windows, call.ret)

\* Five rows in reverse date order with an adj_close column and two windows
\* gave five rows and ten columns more.
C19_Witness ==
    /\ Featurized /\ call.windows = <<2, 4>>
    /\ call.df.columns = OHLCV \cup {"adj_close"}
    /\ Len(call.df.rows) = 5 /\ call.df.rows[1].Date = 5
    /\ call.ret.kind = "df" /\ call.ret.df.rows[1].Date = 1
    /\ Cardinality(call.ret.df.columns) = Cardinality(call.df.columns) + 10

\* A positive price.
Positive(p) == p.kind = Num /\ p.v > 0

\* C20: in an output of compute_standard_features ret is undefined at row
\* 0 and, for every window w of the list, mom_w is undefined at rows
\* 0..w-1 and defined at every later row (the prices are positive), and
\* rv_w and z_ret_w are undefined at the first max(1, w//2) - 1 rows.
\* (Row r of the code is row r + 1 of the sequence.)
C20_WarmUp ==
    (Featurized /\ call.ret.kind = "df" /\ ~empty(call.ret.df.rows))
        => LET cells == call.ret.df.cells
               n == Len(call.ret.df.rows)
           IN  /\ cells["ret"][1] = NaN
               /\ \A k \in 1..Len(call.windows) :
                     LET w == call.windows[k]
                     IN  \A i \in 1..n :
                            /\ i <= w => cells["mom_" \o ToString(w)][i] = NaN
                            /\ (i > w /\ Positive(call.ret.df.rows[i].price) /\ Positive(call.ret.df.rows[i - w].price))
                                  => cells["mom_" \o ToString(w)][i] = Num
                            /\ i <= min_periods(w) - 1
                                  => /\ cells["rv_" \o ToString(w)][i] = NaN
                                     /\ cells["z_ret_" \o ToString(w)][i] = NaN

\* Five rows and the windows 4 and 6: mom_4 is defined at the last row,
\* rv_6 is undefined at the first two rows, rv_4 is defined at the third.
C20_Witness ==
    /\ Featurized /\ call.windows = <<4, 6>>
    /\ call.ret.kind = "df" /\ Len(call.ret.df.rows) = 5
    /\ call.ret.df.cells["mom_4"][5] = Num
    /\ call.ret.df.cells["rv_6"][1] = NaN /\ call.ret.df.cells["rv_6"][2] = NaN
    /\ call.ret.df.cells["rv_4"][3] = Num

\* The price column of the caller's table in date order.
SortedPrices(table) == LET r == sort_by_date(table.rows) IN [i \in 1..Len(r) |-> r[i].price]

\* C21: no cell of a table compute_standard_features returns is +inf or
\* -inf, neither in a feature column nor in a column of the input, for
\* every input table (zero prices, constant prices, infinite cells) and
\* every window list.
C21_NoInfinity ==
    (Featurized /\ call.ret.kind = "df")
        => LET out == call.ret.df
           IN  /\ \A i \in 1..Len(out.rows) : out.rows[i].price.kind \notin {PosInf, NegInf}
               /\ \A c \in DOMAIN out.cells : \A i \in 1..Len(out.rows) : out.cells[c][i] \notin {PosInf, NegInf}

\* A price of zero followed by a positive one and then an infinite one:
\* the return of the second row and the log return of the third were
\* infinite, the returned cells are NaN, and so is the infinite price.
C21_Witness ==
    /\ Featurized /\ call.ret.kind = "df" /\ call.windows = <<2>>
    /\ SortedPrices(call.df) = <<finite(0), finite(1), Inf>>
    /\ feature_cells(SortedPrices(call.df), call.windows)["ret"][2] = PosInf
    /\ feature_cells(SortedPrices(call.df), call.windows)["logret"][3] = PosInf
    /\ call.ret.df.cells["ret"][2] = NaN /\ call.ret.df.cells["logret"][3] = NaN
    /\ call.ret.df.rows[3].price.kind = NaN

C23_EmptyUnchanged ==
    (Featurized /\ empty(call.df.rows))
        => /\ call.ret.kind = "df"
           /\ call.ret.df.columns = call.df.columns
           /\ call.ret.df.rows = call.df.rows

\* An empty table without a price column and a window list rolling would
\* refuse came back as it was.
C23_Witness ==
    /\ Featurized /\ empty(call.df.rows)
    /\ call.df.columns = {"Date", "open", "volume"} /\ call.windows = <<0, 2>>
    /\ call.ret = ReturnDF([columns |-> {"Date", "open", "volume"}, rows |-> EmptyDataFrame, cells |-> <<>>])

\* The recognised price columns.
RecognisedPriceColumns == {"adj_close", "adjusted_close", "close"}

\* C24: compute_standard_features on a non-empty table with none of the
\* columns adj_close, adjusted_close, close fails with the error of the
\* missing column (KeyError); nothing is returned and the caller's table
\* is as it was.
C24_NoPriceColumnFails ==
    (Featurized /\ ~empty(call.df.rows) /\ call.df.columns \cap RecognisedPriceColumns = {})
        => /\ call.ret = Raise("KeyError")
           /\ call.df_after = call.df

\* A table of two rows with the columns Date, open, volume: KeyError.
C24_Witness ==
    /\ Featurized /\ Len(call.df.rows) = 2
    /\ call.df.columns = {"Date", "open", "volume"} /\ call.windows = <<2>>
    /\ call.ret = Raise("KeyError")

\* The prices are positive and all the same.
ConstantPrices(price) == \A i \in 1..Len(price) : Positive(price[i]) /\ price[i] = price[1]

\* C25: for every non-empty table with a Date column and a recognised
\* price column and positive windows, of one row or more (also shorter than
\* every window), with constant prices or without the other OHLCV columns,
\* compute_standard_features raises nothing and returns a table in which
\* the cells the data cannot support are undefined: all feature cells of a
\* one-row table, mom_w of a table of at most w rows, z_ret_w of constant
\* prices.
C25_DegradationNotRaised ==
    (/\ Featurized /\ ~empty(call.df.rows) /\ ValidTable(call.df)
     /\ \A k \in 1..Len(call.windows) : call.windows[k] >= 1)
        => /\ call.ret.kind = "df"
           /\ LET cells == call.ret.df.cells
                  n == Len(call.df.rows)
              IN  /\ n = 1 => \A c \in DOMAIN cells : cells[c][1] = NaN
                  /\ \A k \in 1..Len(call.windows) :
                        LET w == call.windows[k]
                        IN  /\ n <= w => \A i \in 1..n : cells["mom_" \o ToString(w)][i] = NaN
                            /\ ConstantPrices(SortedPrices(call.df))
                                  => \A i \in 1..n : cells["z_ret_" \o ToString(w)][i] = NaN

\* Two rows of the same price with the columns Date and close only and the
\* windows 1 and 6: a table came back; its return is 0 at the second row
\* and its momentum and z-score columns are undefined.
C25_Witness ==
    /\ Featurized /\ call.df.columns = {"Date", "close"} /\ call.windows = <<1, 6>>
    /\ SortedPrices(call.df) = <<finite(2), finite(2)>>
    /\ call.ret.kind = "df"
    /\ call.ret.df.cells["ret"] = <<NaN, Num>>
    /\ call.ret.df.cells["mom_6"] = <<NaN, NaN>>
    /\ call.ret.df.cells["z_ret_1"] = <<NaN, NaN>> /\ call.ret.df.cells["z_ret_6"] = <<NaN, NaN>>

\* ---- rolling_pairwise_correlation (SpecFeaturize)

\* The first of adj_close, adjusted_close, close that the table has.
PriorityOrder == <<"adj_close", "adjusted_close", "close">>
PriorityColumn(columns) ==
    PriorityOrder[CHOOSE i \in 1..3 : PriorityOrder[i] \in columns /\ \A j \in 1..(i - 1) : PriorityOrder[j] \notin columns]

Correlated == call.op = "rolling_pairwise_correlation"

\* C26: compute_standard_features and rolling_pairwise_correlation each use
\* adj_close when the table has it, else adjusted_close when it has that,
\* else close, for every combination of the three columns in the table.
C26_SamePriceColumn ==
    ((Featurized \/ Correlated) /\ call.df.columns \cap RecognisedPriceColumns # {})
        => call.price_col = PriorityColumn(call.df.columns)

\* A long table with its Date and ticker columns, a recognised price
\* column, and no (Date, ticker) pair twice.
ValidLongTable(df) ==
    /\ {"Date", "ticker"} \subseteq df.columns
    /\ df.columns \cap RecognisedPriceColumns # {}
    /\ ~duplicate_entries(df.rows)

\* C27: rolling_pairwise_correlation (on a valid long table, with a
\* positive window) raises KeyError and returns no series whenever left or
\* right is not a ticker of the table; when both are, it returns a series
\* with one entry per distinct date of the table.
C27_AbsentTickerRaises ==
    (Correlated /\ ValidLongTable(call.df) /\ call.window >= 1)
        => IF call.left \in wide_columns(call.df.rows) /\ call.right \in wide_columns(call.df.rows)
           THEN /\ call.ret.kind = "series"
                /\ \A d \in Dates : Cardinality({i \in 1..Len(call.ret.df) : call.ret.df[i] = d})
                                       = IF \E i \in 1..Len(call.df.rows) : call.df.rows[i].Date = d THEN 1 ELSE 0
           ELSE call.ret = Raise("KeyError")

\* ---- compute_standard_features, continued (SpecFeaturize)

\* C28: z_ret_w is undefined, neither infinite nor an error, at every row
\* where the rolling standard deviation of ret over the trailing w
\* observations is a number and exactly zero.
C28_ZeroStdUndefined ==
    (/\ Featurized /\ ~empty(call.df.rows) /\ ValidTable(call.df)
     /\ \A k \in 1..Len(call.windows) : call.windows[k] >= 1)
        => /\ call.ret.kind = "df"
           /\ LET price == SortedPrices(call.df)
                  ret == pct_change(price, 1)
              IN  \A k \in 1..Len(call.windows) : \A i \in 1..Len(price) :
                     (rolling_std(ret, call.windows[k])[i] = Num /\ zero_std(price, ret, i, call.windows[k]))
                         => call.ret.df.cells["z_ret_" \o ToString(call.windows[k])][i] = NaN

\* The prices 1, 2, 2, 2 and the window 2: the returns are 1, 0, 0; at the
\* third row the std of the window is positive and z_ret_2 is a number, at
\* the fourth it is zero and z_ret_2 is undefined.
C28_Witness ==
    /\ Featurized /\ call.windows = <<2>> /\ call.ret.kind = "df"
    /\ SortedPrices(call.df) = <<finite(1), finite(2), finite(2), finite(2)>>
    /\ rolling_std(pct_change(SortedPrices(call.df), 1), 2)[4] = Num
    /\ zero_std(SortedPrices(call.df), pct_change(SortedPrices(call.df), 1), 4, 2)
    /\ call.ret.df.cells["z_ret_2"] = <<NaN, NaN, Num, NaN>>

\* The dates of the rows are strictly increasing.
AscendingDates(rows) == \A i, j \in 1..Len(rows) : i < j => rows[i].Date < rows[j].Date

\* The table with the rows of df (distinct dates) in date order, built
\* without sorting: row d is the row of df with Date d.
InDateOrder(df) ==
    [columns |-> df.columns,
     rows |-> [d \in 1..Len(df.rows) |->
                  LET r == CHOOSE i \in 1..Len(df.rows) : df.rows[i].Date = d
                  IN  [idx |-> d - 1, Date |-> d, price |-> df.rows[r].price]]]

\* C29: the output of compute_standard_features is in ascending Date order
\* whatever the order of the input rows, and for an input with distinct
\* dates it is the output for the same rows given in date order.
C29_OrderIndependent ==
    Featurized
        => /\ call.ret.kind = "df" => AscendingDates(call.ret.df.rows)
           /\ call.ret = featurize(InDateOrder(call.df), call.windows)

\* The rows with the prices 2, 2, 1 were given with the earliest row last;
\* the output starts with that row and its returns are those of 1, 2, 2.
C29_Witness ==
    /\ Featurized /\ call.windows = <<2>> /\ call.ret.kind = "df"
    /\ Len(call.df.rows) = 3 /\ call.df.rows[3].Date = 1
    /\ call.df.rows[3].price = finite(1) /\ call.df.rows[1].price = finite(2)
    /\ call.ret.df.rows[1] = [idx |-> 0, Date |-> 1, price |-> finite(1)]
    /\ call.ret.df.cells["z_ret_2"] = <<NaN, NaN, Num>>

\* ---- the OHLCV row invariant (SpecBulk)

\* No row has a null price, and no two rows of a ticker have the same date.
RowInvariant(df) ==
    /\ \A i \in 1..Len(df) : df[i].ohlc = "num"
    /\ \A i, j \in 1..Len(df) : (i # j /\ df[i].ticker = df[j].ticker) => df[i].Date # df[j].Date

\* C30: every table fetch_ticker or fetch_bulk returns has no row with a
\* null open, high, low or close and no two rows of a ticker with the same
\* date.
C30_RowInvariant ==
    /\ (ft.pc = "done" /\ ft.ret.kind = "df") => RowInvariant(ft.ret.df)
    /\ (call.op = "fetch_bulk" /\ call.ret.kind = "df") => RowInvariant(call.ret.df)

\* ---- the rate-limit sleep (SpecBulk)

\* A fetch_ticker that has come back slept rate_limit_delay at most once,
\* only after a request answered with records, and always when it returns
\* rows.
SleptOnceAfterData ==
    (call.op = "fetch_bulk" /\ ft.pc = "done") =>
        /\ ft.rate_sleeps \in {0, 1}
        /\ ft.rate_sleeps = 1 => ft.last = "ok" /\ ft.ret.kind = "df"
        /\ (ft.ret.kind = "df" /\ ~empty(ft.ret.df)) => ft.rate_sleeps = 1

\* fetch_bulk goes from a ticker whose last request succeeded to the fetch
\* of the next ticker, which has no cache to read and sends the next
\* request: the rate-limit delay has been slept since the request that
\* succeeded.
SeparatedStep ==
    (/\ call.op = "fetch_bulk" /\ call'.op = "fetch_bulk" /\ call'.idx = call.idx + 1
     /\ ft.requests >= 1 /\ ft.last \in {"ok", "no_data"}
     /\ ft'.pc = "attempt")
        => ft.rate_sleeps >= 1

\* C31: fetch_ticker sleeps rate_limit_delay exactly once when a request
\* came back with data and not after a failed attempt, and in fetch_bulk a
\* request that succeeded and the request sent next have a rate-limit sleep
\* between them.
C31_RateLimitSeparation == []SleptOnceAfterData /\ [][SeparatedStep]_vars

\* ---- sequential loops (SpecBulk)

\* While fetch_bulk is in its loop at tickers[idx], the fetches of the
\* tickers before it have all come back, in list order, and the one fetch
\* under way is that of tickers[idx].
InInputOrder ==
    (call.op = "fetch_bulk" /\ call.ret.kind = "pending") =>
        /\ call.idx \in 1..Len(call.tickers)
        /\ Len(call.log) = call.idx - 1
        /\ \A i \in 1..Len(call.log) : call.log[i].ticker = call.tickers[i]
        /\ ft.pc \in {"attempt", "done"}
        /\ ft.ticker = call.tickers[call.idx]

\* A fetch_bulk that returns a table has fetched every ticker, in list order.
AllInInputOrder ==
    (call.op = "fetch_bulk" /\ call.ret.kind = "df") =>
        /\ Len(call.log) = Len(call.tickers)
        /\ \A i \in 1..Len(call.log) : call.log[i].ticker = call.tickers[i]

\* The fetch of the next ticker starts in a step that finds the fetch of
\* the current one completed; a request is sent only by the one fetch under
\* way, and nothing else moves in that step.
OneAtATime ==
    /\ (call.op = "fetch_bulk" /\ call'.op = "fetch_bulk" /\ call'.idx # call.idx) =>
           /\ call'.idx = call.idx + 1
           /\ ft.pc = "done" /\ ft.ticker = call.tickers[call.idx]
           /\ ft'.ticker = call.tickers[call.idx + 1] /\ ft'.requests = 0
    /\ (call.op = "fetch_bulk" /\ ft'.requests > ft.requests) =>
           /\ ft.pc = "attempt" /\ ft'.requests = ft.requests + 1
           /\ ft'.ticker = ft.ticker /\ call' = call

BatchInInputOrder ==
    (call.op = "batch_compute" /\ call.ret.kind = "pending") =>
        /\ call.idx \in 1..Len(call.tickers)
        /\ Len(call.log) = call.idx - 1
        /\ \A i \in 1..Len(call.log) : call.log[i].ticker = call.tickers[i]
BatchOneAtATime ==
    (call.op = "batch_compute" /\ call'.op = "batch_compute") =>
        /\ Len(call'.log) = Len(call.log) + 1
        /\ call'.log[Len(call'.log)].ticker = call.tickers[call.idx]
        /\ \A t \in Tickers : features'[t] # features[t] => t = call.tickers[call.idx]
        /\ call'.ret.kind = "pending" => call'.idx = call.idx + 1
BatchSequential == []BatchInInputOrder /\ [][BatchOneAtATime]_vars

\* ---- FactSetClient.fetch_bulk_optimized (SpecOptimized)

\* C33: once a batch request of fetch_bulk_optimized has been answered with
\* 401, no further request is sent to the provider, neither a batch request
\* nor a request of a fetch_ticker, and what the call ends with is the
\* HTTPError raised.
C33_BatchAuthNotRetried ==
    ((call.op = "fetch_bulk_optimized" \/ (call.op = "fetch_bulk" /\ "batch" \in DOMAIN call))
       /\ \E i \in 1..Len(call.batch) : call.batch[i] = "auth")
    => /\ call.batch[Len(call.batch)] = "auth"
       /\ ft.requests = 0
       /\ call.ret.kind # "pending" => call.ret = Raise("HTTPError401")

\* ---- feature store round trip (SpecStore)

\* compute_and_store has come back from a write that succeeded.
Written == call.op = "compute_and_store" /\ call.ret.kind = "df" /\ call.write = "ok"

\* A step that changes the feature file of t is a write of t's file by
\* compute_and_store, called directly or by the batch_compute iteration of
\* t, and it went one of the ways given.
WriteStep(t, outcomes, states) ==
    features'[t] # features[t] =>
        /\ features'[t].state \in states
        /\ \/ call'.op = "compute_and_store" /\ call'.ticker = t /\ call'.write \in outcomes
           \/ /\ call.op = "batch_compute" /\ call'.op = "batch_compute"
              /\ call.tickers[call.idx] = t
              /\ call'.log[Len(call'.log)].computed = "ok"

\* What load(t) gives while the file of t is as a successful write left it.
StoredTable(t) == ReturnDF(FeatureTable(read_parquet(features[t].rows), features[t].windows))

\* The round trip for every load: whatever the write after a successful one
\* and whatever the read, load gives the table last written successfully.
RoundTripAlways ==
    /\ Written => \A r \in ReadOutcomes : load(call.ticker, r) = call.ret
    /\ (call.op = "load" /\ features[call.ticker].state # "absent") => call.ret = StoredTable(call.ticker)
RoundTripUntilWritten == \A t \in Tickers : WriteStep(t, {"ok"}, {"parquet"})

\* C34 as stated: after a compute_and_store(t, raw, windows) whose write
\* succeeded, every load(t) returns the table compute_and_store returned,
\* and the entry of t changes only by the next successful write for t.
C34_RoundTrip == []RoundTripAlways /\ [][RoundTripUntilWritten]_vars

\* The round trip for the loads whose read succeeds, of a file no failed
\* write has truncated.
RoundTripIfReadable ==
    /\ Written => /\ features[call.ticker].state = "parquet"
                  /\ load(call.ticker, "ok") = call.ret
    /\ (call.op = "load" /\ call.read = "ok" /\ features[call.ticker].state = "parquet")
          => call.ret = StoredTable(call.ticker)
    /\ (call.op = "load" /\ (call.read # "ok" \/ features[call.ticker].state # "parquet"))
          => call.ret = ReturnDF(EmptyFeatureTable)
RoundTripUntilNextWrite == \A t \in Tickers : WriteStep(t, {"ok", "partial"}, {"parquet", "corrupt"})

\* C34, amended: after a compute_and_store(t, raw, windows) whose write
\* succeeded, the file of t holds the table returned, whatever it held
\* before and whatever the windows, and a load(t) that can read it returns
\* that table; the entry stays so until the next write for t, which replaces
\* it if it succeeds and may leave it unreadable if it fails; a load that
\* cannot read the file returns an empty table.
C34_RoundTripIfReadable == []RoundTripIfReadable /\ [][RoundTripUntilNextWrite]_vars

\* compute_and_store has written a table with rows and the columns of
\* window 2, and load reads it back.
C34_Witness ==
    /\ Written /\ ~empty(call.ret.df.rows) /\ call.ret.df.windows = <<2>>
    /\ load(call.ticker, "ok") = call.ret

\* ---- fetch_ticker's return value (Spec)

\* C35: whatever the configuration (a retry budget of zero included) and
\* whatever the provider answers, a fetch_ticker that does not raise the
\* authentication error returns a table, possibly empty, never None.
C35_AlwaysATable ==
    ft.pc = "done" =>
        /\ ft.ret.kind \in {"df", "raise"}
        /\ ft.ret.kind = "raise" => (provider = "factset" /\ ft.last = "auth")

\* ---- fetches without data and the cache (Spec)

\* fetch_ticker has come back without data: with an empty table or with an
\* exception.
NoData(f) == f.pc = "done" /\ (f.ret.kind = "raise" \/ (f.ret.kind = "df" /\ empty(f.ret.df)))

\* A step of a call that ends without data leaves every cache file as it
\* was; the cache changes only in the step that returns data; and a request
\* answered with no record ends the call in that step, with no sleep.
NoDataStep ==
    /\ (ft.pc # "done" /\ NoData(ft')) => (cache' = cache /\ ft'.writes = 0)
    /\ cache' # cache => (ft.pc = "attempt" /\ ft'.pc = "done" /\ ft'.ret.kind = "df" /\ ~empty(ft'.ret.df))
    /\ (ft.pc = "attempt" /\ ft'.requests = ft.requests + 1 /\ ft'.last \in {"ok", "no_data"})
          => (ft'.pc = "done" /\ ft'.sleeps = ft.sleeps /\ ft'.attempt = ft.attempt)

\* C36: when fetch_ticker returns an empty table or raises, no cache file is
\* created or overwritten, in none of the steps of the call, and an empty
\* provider response is returned at once without a retry.
C36_NoDataNoCacheChange == [](ft.pc = "attempt" => ft.writes = 0) /\ [][NoDataStep]_vars

\* A fetch with use_cache false was answered with no record, came back
\* empty, and the entry stored earlier for its key is still there.
C36_Witness ==
    /\ NoData(ft) /\ ft.ret.kind = "df" /\ ~ft.use_cache /\ ft.requests = 1 /\ ft.last = "ok"
    /\ cache_dir /\ cache[CacheFile(provider, ft.ticker, ft.interval)].state = "parquet"
    /\ ~empty(cache[CacheFile(provider, ft.ticker, ft.interval)].rows)

\* ---- cached reads (Spec)

\* Every row of df is a row of the cache file.
RowsOf(df, file) == \A i \in 1..Len(df) : \E j \in 1..Len(file.rows) : Values(df)[i] = file.rows[j]

\* A fetch_ticker with use_cache true that finds a loadable entry returns
\* rows of that entry only, sends no request and leaves the cache as it is;
\* a step that changes a loadable entry is the return, with data, of a
\* fetch of that key with use_cache false, which leaves the entry holding
\* the table it returns (or unreadable, when the write failed).
CachedReadStep ==
    /\ (ft.pc = "idle" /\ ft'.pc # "idle" /\ ft'.use_cache /\ Loadable(ft'.ticker, ft'.interval))
          => /\ ft'.pc = "done" /\ ft'.ret.kind = "df" /\ ft'.requests = 0
             /\ RowsOf(ft'.ret.df, cache[CacheFile(provider, ft'.ticker, ft'.interval)])
             /\ cache' = cache
    /\ \A f \in CacheFiles :
          (cache[f].state = "parquet" /\ cache'[f] # cache[f])
             => /\ ~ft.use_cache /\ f = CacheFile(provider, ft.ticker, ft.interval)
                /\ ft'.pc = "done" /\ ft'.ret.kind = "df" /\ ~empty(ft'.ret.df)
                /\ cache'[f].state = "parquet" => cache'[f].rows = Values(ft'.ret.df)

Elements(l) == {l[i] : i \in 1..Len(l)}

\* An iteration of batch_compute whose fetch is empty (or None, or raises)
\* or whose computation raises leaves every feature file as it was; an
\* iteration that changes a file changes that of its ticker and puts the
\* ticker on the list; no ticker leaves the list, and the list is what the
\* batch returns.
UntouchedStep ==
    (call.op = "batch_compute" /\ call'.op = "batch_compute") =>
        LET e == call'.log[Len(call'.log)]
        IN  /\ e.ticker = call.tickers[call.idx]
            /\ (e.fetched # "df" \/ e.computed # "ok") => features' = features
            /\ \A t \in Tickers : features'[t] # features[t] => (t = e.ticker /\ t \in Elements(call'.succeeded))
            /\ Elements(call.succeeded) \subseteq Elements(call'.succeeded)
            /\ call'.ret.kind = "list" => call'.ret.df = call'.succeeded

\* C38: batch_compute leaves the feature file of a ticker untouched when
\* the ticker's fetch is empty or its computation raises, so a file written
\* earlier stays loadable with its old content, and a ticker that is not on
\* the returned list has had its file changed by no iteration of the batch.
C38_FailedTickersUntouched == [][UntouchedStep]_vars

\* An iteration whose fetch was empty has passed a ticker that has a
\* feature file with rows, written earlier, which load still reads.
C38_Witness ==
    /\ call.op = "batch_compute" /\ Len(call.log) >= 1
    /\ LET e == call.log[Len(call.log)]
       IN  /\ e.fetched = "empty"
           /\ e.ticker \notin Elements(call.succeeded)
           /\ features[e.ticker].state = "parquet" /\ ~empty(features[e.ticker].rows)
           /\ load(e.ticker, "ok").df.rows = read_parquet(features[e.ticker].rows)

\* ---- the windows compute_and_store uses (SpecStore)

\* C39: compute_and_store uses the default windows [5, 20, 60] only when
\* windows is None; a window list the caller gives, the empty one included,
\* is the list whose columns the table returned and the table stored have.
C39_CallerWindowsDecide ==
    (call.op = "compute_and_store" /\ call.ret.kind = "df" /\ ~empty(call.raw_df)) =>
        LET windows == IF call.windows.given THEN call.windows.list ELSE DefaultWindows
        IN  /\ call.ret.df.windows = windows
            /\ call.write = "ok" => features[call.ticker].windows = windows

====
